---- MODULE Spec2Model ----
(***************************************************************************)
(* The OpenZL JNI binding (src/main/native/openzl_jni.c) as a state        *)
(* machine.  The state is the native heap (handle records, contexts,       *)
(* descriptors, scratch buffers, typed references, frame-info descriptors  *)
(* and JNI array pins), the content of each handle record, the life-cycle  *)
(* of each handle and the outcome of the native method that ran last.      *)
(* Every exported native method is one operator that computes, from its    *)
(* arguments and from the failures the environment injects, the value it   *)
(* returns, the exception it leaves pending and the sequence of events     *)
(* (allocations, frees, pins, releases, native calls) it performs, in the  *)
(* order of the C code.  The OpenZL library (the ZL_ functions) and the JVM *)
(* (JNIEnv functions) are the environment: they are modelled only as far   *)
(* as the binding observes them.                                           *)
(***************************************************************************)
EXTENDS Integers, Sequences, FiniteSets, TLC

VARIABLES heap, rec, hstate, last, kept, thr

vars == <<heap, rec, hstate, last, kept, thr>>

----------------------------------------------------------------------------
(* Bounds of the model *)

\* number of addresses malloc can hand out for handle records
MaxHandles == 2
\* longest managed byte array passed as a serial source
MaxLen == 3
\* longest managed numeric array
MaxElts == 2

----------------------------------------------------------------------------
(* Program constants *)

\* sizeof(jint), sizeof(jlong), sizeof(jfloat), sizeof(jdouble)
SizeofJint == 4
SizeofJlong == 8
SizeofJfloat == 4
SizeofJdouble == 8
\* release modes of Release<T>ArrayElements: 0 copies back and frees the
\* buffer, JNI_ABORT frees the buffer without copying back
JNI_COMMIT_AND_FREE == 0
JNI_ABORT == 2

----------------------------------------------------------------------------
(* Managed data *)

\* byte values of the model: the two extremes of a byte
Bytes == {0, 255}

Ids == 1..MaxHandles

\* the ids a host may pass: a negative one, the reserved 0, every address
IdArgs == {-1, 0} \cup Ids

RECURSIVE SeqsUpTo(_, _)
SeqsUpTo(S, n) ==
    IF n = 0 THEN {<<>>}
    ELSE LET shorter == SeqsUpTo(S, n - 1)
         IN  shorter \cup {Append(s, x) : s \in {t \in shorter : Len(t) = n - 1}, x \in S}

\* jbyteArray values
ByteArrays == SeqsUpTo(Bytes, MaxLen)

\* the bit patterns of an element of `width` bytes used by the model: all
\* zero, lowest byte set, highest byte set (little endian byte order)
Elements(width) ==
    {[j \in 1..width |-> 0]} \cup
    {[j \in 1..width |-> IF j = k THEN 255 ELSE 0] : k \in {1, width}}

\* jintArray, jlongArray, jfloatArray, jdoubleArray values: sequences of
\* elements, an element being its `width` bytes
NumericArrays(width) == SeqsUpTo(Elements(width), MaxElts)

\* the (offset, length) windows that lie inside an array of n bytes
Windows(n) == {w \in (0..n) \X (0..n) : w[1] + w[2] <= n}

\* the native view of a pinned numeric array: its elements' bytes in order
RECURSIVE Flatten(_)
Flatten(elems) ==
    IF elems = <<>> THEN <<>> ELSE Head(elems) \o Flatten(Tail(elems))

\* Set<T>ArrayRegion(result, 0, n, buf): n elements of `width` bytes are
\* read from buf; a byte beyond the end of buf is whatever memory holds
SetArrayRegion(buf, width, n, junk) ==
    [i \in 1..n |->
        [j \in 1..width |->
            LET k == (i - 1) * width + j
            IN  IF k <= Len(buf) THEN buf[k] ELSE junk]]

\* SetByteArrayRegion(result, 0, n, buf)
SetByteArrayRegion(buf, n, junk) ==
    [i \in 1..n |-> IF i <= Len(buf) THEN buf[i] ELSE junk]

Reverse(s) == [i \in 1..Len(s) |-> s[Len(s) + 1 - i]]

----------------------------------------------------------------------------
(* Events, exceptions and returned values *)

\* one step of a native method: e is the kind of step, o the object or the
\* function it concerns, n an address, a release mode or 0
Ev(e, o, n) == [e |-> e, o |-> o, n |-> n]

\* a native object: handle records and what they own carry the record's
\* address, the objects of one call (scratch, typed_ref, frame_info, pins)
\* carry 0
Obj(k, a) == [k |-> k, a |-> a]

NoError == [cls |-> "none", msg |-> ""]

\* the classes FindClass resolves in a correctly packaged host
LoadableClasses ==
    {"net/openzl/OpenZLException", "java/lang/OutOfMemoryError",
     "java/lang/IllegalArgumentException"}

\* throw_exception: ThrowNew only when FindClass found the class; a failed
\* FindClass leaves its own NoClassDefFoundError pending
throw_exception(exception_class, message) ==
    IF exception_class \in LoadableClasses
    THEN [cls |-> exception_class, msg |-> message]
    ELSE [cls |-> "java/lang/NoClassDefFoundError", msg |-> exception_class]

throw_openzl_exception(message) ==
    throw_exception("net/openzl/OpenZLException", message)

throw_out_of_memory == throw_exception("java/lang/OutOfMemoryError", "Failed to allocate memory")

\* a ZL_Report: an error carrying a code, or a success carrying a size
ZLError(code) == [isError |-> TRUE, v |-> code]
ZLValue(n) == [isError |-> FALSE, v |-> n]

\* ZL_ErrorCode_toString: the library's message for an error code
ZL_ErrorCode_toString(code) ==
    CASE code = 1 -> "ZL: dstCapacity too small"
      [] code = 2 -> "ZL: corrupted frame"
      [] OTHER    -> "ZL: generic error"

\* variant: the report is dropped and nothing is thrown
throw_openzl_report_error_Silent(report) == NoError

\* throw_openzl_report_error: throws only when the report is an error
throw_openzl_report_error(report) ==
    IF report.isError
    THEN throw_openzl_exception(ZL_ErrorCode_toString(report.v))
    ELSE NoError

\* returned values: jlong / jint, a managed array (null when tag is "null"),
\* a CompressionInfo object, nothing (void), or no return at all because the
\* process died inside the call
NullRet == [tag |-> "null", n |-> 0, data |-> <<>>]
IntRet(n) == [tag |-> "int", n |-> n, data |-> <<>>]
ArrayRet(t, data) == [tag |-> t, n |-> Len(data), data |-> data]
VoidRet == [tag |-> "void", n |-> 0, data |-> <<>>]
CrashRet == [tag |-> "crash", n |-> 0, data |-> <<>>]

\* what a native method leaves behind: ret, the pending exception, the
\* events in program order, the managed destination array afterwards and
\* the handle record it wrote
Out(ret, err, trace) ==
    [ret |-> ret, err |-> err, trace |-> trace, dest |-> <<>>]

\* the method returns ret with exception err pending, having run trace
Fail(ret, err, trace) ==
    Out(ret, err, Append(trace, Ev("throw", err.cls, 0)))

----------------------------------------------------------------------------
(* The OpenZL library, as far as the binding observes it.  A frame is      *)
(* <<type, element width, element count, pipeline>> followed by the        *)
(* encoded content; decompression inverts compression.                     *)

\* ZL_Type values of the typed references the binding creates
ZL_Type_serial == 1
ZL_Type_numeric == 4

\* the built-in graphs createCompressor can select, in the order of the
\* switch
Pipelines ==
    <<"ZL_GRAPH_ZSTD", "ZL_GRAPH_COMPRESS_GENERIC", "ZL_GRAPH_FIELD_LZ",
      "ZL_GRAPH_STORE", "ZL_GRAPH_FSE", "ZL_GRAPH_HUFFMAN", "ZL_GRAPH_ENTROPY",
      "ZL_GRAPH_BITPACK", "ZL_GRAPH_CONSTANT">>

PipelineSet == {Pipelines[i] : i \in 1..Len(Pipelines)}

PipelineIndex(g) == CHOOSE i \in 1..Len(Pipelines) : Pipelines[i] = g

FrameHeaderLen == 4

\* the content as the pipeline stores it: Store keeps it, every other
\* pipeline transforms it invertibly
Encode(g, content) == IF g = "ZL_GRAPH_STORE" THEN content ELSE Reverse(content)
Decode(g, payload) == IF g = "ZL_GRAPH_STORE" THEN payload ELSE Reverse(payload)

\* ZL_TypedRef_createSerial(ptr + off, len) over a pinned byte view
ZL_TypedRef_createSerial(view, off, len) ==
    [type |-> ZL_Type_serial, width |-> 1, numElts |-> len,
     bytes |-> SubSeq(view, off + 1, off + len)]

\* ZL_TypedRef_createNumeric(ptr, width, count) over a pinned element view
ZL_TypedRef_createNumeric(view, width, count) ==
    [type |-> ZL_Type_numeric, width |-> width, numElts |-> count,
     bytes |-> SubSeq(view, 1, width * count)]

ZL_compressBound(n) == n + FrameHeaderLen

\* the frame ZL_CCtx_compressTypedRef writes for a typed reference
FrameOf(g, tref) ==
    <<tref.type, tref.width, tref.numElts, PipelineIndex(g)>> \o Encode(g, tref.bytes)

\* ZL_CCtx_compressTypedRef(cctx, dst, dstCapacity, tref): the report and
\* the bytes written at dst
ZL_CCtx_compressTypedRef(g, dstCapacity, tref, fails) ==
    LET frame == FrameOf(g, tref)
    IN  IF fails THEN [report |-> ZLError(3), bytes |-> <<>>]
        ELSE IF Len(frame) > dstCapacity THEN [report |-> ZLError(1), bytes |-> <<>>]
        ELSE [report |-> ZLValue(Len(frame)), bytes |-> frame]

IsFrame(b) ==
    /\ Len(b) >= FrameHeaderLen
    /\ b[1] \in {ZL_Type_serial, ZL_Type_numeric}
    /\ b[2] \in 1..8
    /\ b[3] \in 0..Len(b)
    /\ b[4] \in 1..Len(Pipelines)
    /\ Len(b) = FrameHeaderLen + b[2] * b[3]

FrameContent(b) == Decode(Pipelines[b[4]], SubSeq(b, FrameHeaderLen + 1, Len(b)))

\* ZL_getDecompressedSize(src, srcSize): bytes of the regenerated content
ZL_getDecompressedSize(b) ==
    IF IsFrame(b) THEN ZLValue(b[2] * b[3]) ELSE ZLError(2)

\* ZL_decompress(dst, dstCapacity, src, srcSize)
ZL_decompress(dstCapacity, b, fails) ==
    IF fails THEN [report |-> ZLError(3), bytes |-> <<>>]
    ELSE IF ~IsFrame(b) THEN [report |-> ZLError(2), bytes |-> <<>>]
    ELSE IF b[2] * b[3] > dstCapacity THEN [report |-> ZLError(1), bytes |-> <<>>]
    ELSE [report |-> ZLValue(b[2] * b[3]), bytes |-> FrameContent(b)]

\* ZL_DCtx_decompressTyped(dctx, &outputInfo, dst, dstCapacity, src, srcSize)
ZL_DCtx_decompressTyped(dstCapacity, b, fails) ==
    LET r == ZL_decompress(dstCapacity, b, fails)
    IN  [report |-> r.report, bytes |-> r.bytes,
         outputInfo |-> IF r.report.isError
                        THEN [type |-> 0, fixedWidth |-> 0, numElts |-> 0]
                        ELSE [type |-> b[1], fixedWidth |-> b[2], numElts |-> b[3]]]

----------------------------------------------------------------------------
(* Handle registry: createCompressor, destroyCompressor,                   *)
(* createDecompressor, destroyDecompressor                                 *)

\* the graph codes a host may pass: every code of the table, one below and
\* one above
GraphCodes == -1..10

\* the content of the memory at an address that holds no handle record
NoRec ==
    [kind |-> "none", ctx |-> 0, compressor |-> 0, graph_id |-> "none",
     start |-> "none", refd |-> FALSE, formatVersion |-> "unset", level |-> "unset"]

WithRec(out, r) == [ret |-> out.ret, err |-> out.err, trace |-> out.trace,
                    dest |-> out.dest, rec |-> r]

\* variant: the switch without its case 9, which then takes the default
SelectGraph_NoCase9(graph_id) ==
    CASE graph_id = 0 -> "ZL_GRAPH_ZSTD"
      [] graph_id = 1 -> "ZL_GRAPH_COMPRESS_GENERIC"
      [] graph_id = 2 -> "ZL_GRAPH_FIELD_LZ"
      [] graph_id = 3 -> "ZL_GRAPH_STORE"
      [] graph_id = 4 -> "ZL_GRAPH_FSE"
      [] graph_id = 5 -> "ZL_GRAPH_HUFFMAN"
      [] graph_id = 6 -> "ZL_GRAPH_ENTROPY"
      [] graph_id = 7 -> "ZL_GRAPH_BITPACK"
      [] graph_id = 8 -> "ZL_GRAPH_CONSTANT"
      [] OTHER -> "ZL_GRAPH_ZSTD"

\* the switch of createCompressor
SelectGraph(graph_id) ==
    CASE graph_id = 0 -> "ZL_GRAPH_ZSTD"
      [] graph_id = 1 -> "ZL_GRAPH_COMPRESS_GENERIC"
      [] graph_id = 2 -> "ZL_GRAPH_FIELD_LZ"
      [] graph_id = 3 -> "ZL_GRAPH_STORE"
      [] graph_id = 4 -> "ZL_GRAPH_FSE"
      [] graph_id = 5 -> "ZL_GRAPH_HUFFMAN"
      [] graph_id = 6 -> "ZL_GRAPH_ENTROPY"
      [] graph_id = 7 -> "ZL_GRAPH_BITPACK"
      [] graph_id = 8 -> "ZL_GRAPH_CONSTANT"
      [] graph_id = 9 -> "ZL_GRAPH_COMPRESS_GENERIC"
      [] OTHER -> "ZL_GRAPH_ZSTD"

CreateCompressorFaults ==
    {"malloc", "ZL_CCtx_create", "ZL_Compressor_create", "formatVersion",
     "compressionLevel", "selectStartingGraphID", "refCompressor"}

\* variant: a failure path that forgets ZL_CCtx_free
FreeCompressorParts_NoCtx(addr) ==
    <<Ev("free", "Compressor", addr), Ev("free", "record", addr)>>

\* the three frees every failure after the descriptor exists performs
FreeCompressorParts(addr) ==
    <<Ev("free", "Compressor", addr), Ev("free", "CCtx", addr), Ev("free", "record", addr)>>

\* createCompressor(graph_id); addr is the address malloc returns when it
\* succeeds, f the set of steps that fail
createCompressor(addr, graph_id, f) ==
    IF "malloc" \in f
    THEN WithRec(Fail(IntRet(0), throw_out_of_memory, <<>>), NoRec)
    ELSE
    LET t1 == <<Ev("alloc", "record", addr)>> IN
    IF "ZL_CCtx_create" \in f
    THEN WithRec(Fail(IntRet(0), throw_openzl_exception("Failed to create compression context"),
                      t1 \o <<Ev("free", "record", addr)>>), NoRec)
    ELSE
    LET t2 == Append(t1, Ev("alloc", "CCtx", addr)) IN
    IF "ZL_Compressor_create" \in f
    THEN WithRec(Fail(IntRet(0), throw_openzl_exception("Failed to create compressor object"),
                      t2 \o <<Ev("free", "CCtx", addr), Ev("free", "record", addr)>>), NoRec)
    ELSE
    LET t3 == Append(t2, Ev("alloc", "Compressor", addr))
        selected_graph == SelectGraph(graph_id)
        t4 == Append(t3, Ev("call", "ZL_CCtx_setParameter(formatVersion)", addr))
    IN
    IF "formatVersion" \in f
    THEN WithRec(Fail(IntRet(0), throw_openzl_report_error(ZLError(3)),
                      t4 \o FreeCompressorParts(addr)), NoRec)
    ELSE
    LET t5 == Append(t4, Ev("call", "ZL_CCtx_setParameter(compressionLevel)", addr)) IN
    IF "compressionLevel" \in f
    THEN WithRec(Fail(IntRet(0), throw_openzl_report_error(ZLError(3)),
                      t5 \o FreeCompressorParts(addr)), NoRec)
    ELSE
    LET t6 == Append(t5, Ev("call", "ZL_Compressor_selectStartingGraphID", addr)) IN
    IF "selectStartingGraphID" \in f
    THEN WithRec(Fail(IntRet(0), throw_openzl_report_error(ZLError(3)),
                      t6 \o FreeCompressorParts(addr)), NoRec)
    ELSE
    LET t7 == Append(t6, Ev("call", "ZL_CCtx_refCompressor", addr)) IN
    IF "refCompressor" \in f
    THEN WithRec(Fail(IntRet(0), throw_openzl_report_error(ZLError(3)),
                      t7 \o FreeCompressorParts(addr)), NoRec)
    ELSE WithRec(Out(IntRet(addr), NoError, t7),
                 [kind |-> "compressor", ctx |-> addr, compressor |-> addr,
                  graph_id |-> selected_graph, start |-> selected_graph, refd |-> TRUE,
                  formatVersion |-> "ZL_MAX_FORMAT_VERSION",
                  level |-> "ZL_COMPRESSIONLEVEL_DEFAULT"])

CreateDecompressorFaults == {"malloc", "ZL_DCtx_create"}

\* createDecompressor()
createDecompressor(addr, f) ==
    IF "malloc" \in f
    THEN WithRec(Fail(IntRet(0), throw_out_of_memory, <<>>), NoRec)
    ELSE
    LET t1 == <<Ev("alloc", "record", addr)>> IN
    IF "ZL_DCtx_create" \in f
    THEN WithRec(Fail(IntRet(0), throw_openzl_exception("Failed to create decompression context"),
                      t1 \o <<Ev("free", "record", addr)>>), NoRec)
    ELSE WithRec(Out(IntRet(addr), NoError, Append(t1, Ev("alloc", "DCtx", addr))),
                 [NoRec EXCEPT !.kind = "decompressor", !.ctx = addr])

\* the record at compressor_ptr is a live compressor / decompressor record
LiveCompressor(ptr) ==
    ptr \in Ids /\ Obj("record", ptr) \in heap /\ rec[ptr].kind = "compressor"

LiveDecompressor(ptr) ==
    ptr \in Ids /\ Obj("record", ptr) \in heap /\ rec[ptr].kind = "decompressor"

\* what a use of a pointer that names no live record of the expected kind
\* can do: kill the process, or run on whatever the memory holds
UBOutcomes == {"crash", "error", "garbage"}

\* variant: the context is freed before the descriptor it references
destroyCompressor_CtxFirst(compressor_ptr, ub) ==
    IF compressor_ptr = 0 THEN WithRec(Out(VoidRet, NoError, <<>>), NoRec)
    ELSE
    LET t1 == <<Ev("read", "record", compressor_ptr)>> IN
    IF ~LiveCompressor(compressor_ptr) /\ ub = "crash"
    THEN WithRec(Out(CrashRet, NoError, Append(t1, Ev("crash", "record", compressor_ptr))), NoRec)
    ELSE
    LET compressor == IF compressor_ptr \in Ids THEN rec[compressor_ptr] ELSE NoRec
        t2 == IF compressor.ctx # 0
              THEN Append(t1, Ev("free", "CCtx", compressor.ctx)) ELSE t1
        t3 == IF compressor.compressor # 0
              THEN Append(t2, Ev("free", "Compressor", compressor.compressor)) ELSE t2
    IN  WithRec(Out(VoidRet, NoError, Append(t3, Ev("free", "record", compressor_ptr))), NoRec)

\* destroyCompressor(compressor_ptr)
destroyCompressor(compressor_ptr, ub) ==
    IF compressor_ptr = 0 THEN WithRec(Out(VoidRet, NoError, <<>>), NoRec)
    ELSE
    LET t1 == <<Ev("read", "record", compressor_ptr)>> IN
    IF ~LiveCompressor(compressor_ptr) /\ ub = "crash"
    THEN WithRec(Out(CrashRet, NoError, Append(t1, Ev("crash", "record", compressor_ptr))), NoRec)
    ELSE
    LET compressor == IF compressor_ptr \in Ids THEN rec[compressor_ptr] ELSE NoRec
        t2 == IF compressor.compressor # 0
              THEN Append(t1, Ev("free", "Compressor", compressor.compressor)) ELSE t1
        t3 == IF compressor.ctx # 0
              THEN Append(t2, Ev("free", "CCtx", compressor.ctx)) ELSE t2
    IN  WithRec(Out(VoidRet, NoError, Append(t3, Ev("free", "record", compressor_ptr))), NoRec)

\* variant: the context is freed and the handle record is kept
destroyDecompressor_KeepRecord(decompressor_ptr, ub) ==
    IF decompressor_ptr = 0 THEN WithRec(Out(VoidRet, NoError, <<>>), NoRec)
    ELSE
    LET t1 == <<Ev("read", "record", decompressor_ptr)>> IN
    IF ~LiveDecompressor(decompressor_ptr) /\ ub = "crash"
    THEN WithRec(Out(CrashRet, NoError, Append(t1, Ev("crash", "record", decompressor_ptr))), NoRec)
    ELSE
    LET decompressor == IF decompressor_ptr \in Ids THEN rec[decompressor_ptr] ELSE NoRec
        t2 == IF decompressor.ctx # 0
              THEN Append(t1, Ev("free", "DCtx", decompressor.ctx)) ELSE t1
    IN  WithRec(Out(VoidRet, NoError, t2), NoRec)

\* destroyDecompressor(decompressor_ptr)
destroyDecompressor(decompressor_ptr, ub) ==
    IF decompressor_ptr = 0 THEN WithRec(Out(VoidRet, NoError, <<>>), NoRec)
    ELSE
    LET t1 == <<Ev("read", "record", decompressor_ptr)>> IN
    IF ~LiveDecompressor(decompressor_ptr) /\ ub = "crash"
    THEN WithRec(Out(CrashRet, NoError, Append(t1, Ev("crash", "record", decompressor_ptr))), NoRec)
    ELSE
    LET decompressor == IF decompressor_ptr \in Ids THEN rec[decompressor_ptr] ELSE NoRec
        t2 == IF decompressor.ctx # 0
              THEN Append(t1, Ev("free", "DCtx", decompressor.ctx)) ELSE t1
    IN  WithRec(Out(VoidRet, NoError, Append(t2, Ev("free", "record", decompressor_ptr))), NoRec)

----------------------------------------------------------------------------
(* Compress operations *)

\* the failures the environment can inject into one call: Get<T>ArrayElements
\* of the source / of the destination returns NULL, malloc returns NULL,
\* ZL_TypedRef_create* returns NULL, the size query or the native
\* compress / decompress reports an error, New<T>Array returns NULL
CallFaults == {"pin_src", "pin_dest", "malloc", "typed_ref", "size_query", "native", "new_array"}

\* Release<T>ArrayElements(array, elems, mode): the managed array afterwards.
\* Mode 0 copies the native view back; JNI_ABORT drops a copied view, and
\* leaves the writes in place when the JVM pinned the array itself
ReleaseArrayElements(managed, view, mode, isCopy) ==
    IF mode = JNI_ABORT /\ isCopy THEN managed ELSE view

\* variant: the capacity is what is left of the array, not max_dest_len
DestCapacity_RestOfArray(dest, dest_off, max_dest_len) == Len(dest) - dest_off

\* the capacity the _to_buffer operations hand to the native call with
\* dest_data + dest_off
DestCapacity(dest, dest_off, max_dest_len) == max_dest_len

\* variant: the native call is handed dest_data, not dest_data + dest_off
WriteAt_NoOffset(view, off, bytes) ==
    [i \in 1..Len(view) |-> IF i <= Len(bytes) THEN bytes[i] ELSE view[i]]

\* the native view after `bytes` were written at offset off
WriteAt(view, off, bytes) ==
    [i \in 1..Len(view) |->
        IF i > off /\ i <= off + Len(bytes) THEN bytes[i - off] ELSE view[i]]

\* variant: the check is missing
InvalidHandle_Never(ptr) == FALSE

\* variant: the check rejects negative ids with zero
InvalidHandle_NonPositive(ptr) == ptr <= 0

\* the handle check every compress and decompress operation starts with
InvalidHandle(ptr) == ptr = 0

\* variant: the _to_buffer operations return 0 on failure
ToBufferSentinel_Zero == IntRet(0)

\* what the _to_buffer operations return with an exception pending
ToBufferSentinel == IntRet(-1)

\* variant: both arrays are released whichever pin failed
PinFailureCleanup_Both(src_ok, dest_ok) ==
    <<Ev("release", "pin_src", JNI_ABORT), Ev("release", "pin_dest", JNI_ABORT)>>

\* compressSerialToBuffer after a pin failed: each array that was pinned is
\* released, the source first
PinFailureCleanup(src_ok, dest_ok) ==
    (IF src_ok THEN <<Ev("release", "pin_src", JNI_ABORT)>> ELSE <<>>)
    \o (IF dest_ok THEN <<Ev("release", "pin_dest", JNI_ABORT)>> ELSE <<>>)

\* variant: the scratch buffer is not freed
TypedRefFailureCleanup_NoFree == <<Ev("release", "pin_src", JNI_ABORT)>>

\* the compress operations after ZL_TypedRef_create* returned NULL
TypedRefFailureCleanup ==
    <<Ev("release", "pin_src", JNI_ABORT), Ev("free", "scratch", 0)>>

\* variant: the destination is released before the source
ToBufferRelease_DestFirst ==
    <<Ev("release", "pin_dest", JNI_COMMIT_AND_FREE), Ev("release", "pin_src", JNI_ABORT)>>

\* the _to_buffer operations after the native call: the source is released
\* without copy-back, then the destination with it
ToBufferRelease ==
    <<Ev("release", "pin_src", JNI_ABORT), Ev("release", "pin_dest", JNI_COMMIT_AND_FREE)>>

\* variant: the destination is committed although nothing was written
ToBufferTypedRefFailureCleanup_Commit ==
    <<Ev("release", "pin_src", JNI_ABORT), Ev("release", "pin_dest", JNI_COMMIT_AND_FREE)>>

\* compressSerialToBuffer after ZL_TypedRef_createSerial returned NULL
ToBufferTypedRefFailureCleanup ==
    <<Ev("release", "pin_src", JNI_ABORT), Ev("release", "pin_dest", JNI_ABORT)>>

\* variant: the array is unpinned while the typed reference still points
\* into it
ReleaseAfterNative_PinFirst ==
    <<Ev("release", "pin_src", JNI_ABORT), Ev("free", "typed_ref", 0)>>

\* the compress operations after the native call: the typed reference is
\* freed, then the source is released
ReleaseAfterNative ==
    <<Ev("free", "typed_ref", 0), Ev("release", "pin_src", JNI_ABORT)>>

\* variant: the binding keeps one compression context for all handles, that
\* of the compressor opened last
CompressWithCtx_SharedCtx(compressor_ptr, dstCapacity, tref, f, ub) ==
    LET open == {a \in Ids : LiveCompressor(a)}
        shared == IF open = {} THEN compressor_ptr
                  ELSE CHOOSE a \in open : \A b \in open : b <= a
        r == ZL_CCtx_compressTypedRef(
                 IF LiveCompressor(shared) /\ rec[shared].refd THEN rec[shared].start
                 ELSE "ZL_GRAPH_ZSTD",
                 dstCapacity, tref, "native" \in f)
    IN  IF ~LiveCompressor(compressor_ptr) /\ ub = "crash"
        THEN [crash |-> TRUE, report |-> ZLError(3), bytes |-> <<>>]
        ELSE [crash |-> FALSE, report |-> r.report, bytes |-> r.bytes]

\* variant: a native error tears the compression context down
NativeErrorCleanup_FreesCtx(compressor_ptr) ==
    <<Ev("free", "scratch", 0), Ev("free", "CCtx", compressor_ptr)>>

\* the compress operations after ZL_CCtx_compressTypedRef reported an
\* error: the scratch buffer is freed, the handle is not touched
NativeErrorCleanup(compressor_ptr) == <<Ev("free", "scratch", 0)>>

\* compressor->ctx handed to ZL_CCtx_compressTypedRef: the context compresses
\* with the starting graph of the descriptor it references
CompressWithCtx(compressor_ptr, dstCapacity, tref, f, ub) ==
    IF LiveCompressor(compressor_ptr)
    THEN LET r == ZL_CCtx_compressTypedRef(
                      IF rec[compressor_ptr].refd THEN rec[compressor_ptr].start
                      ELSE "ZL_GRAPH_ZSTD",
                      dstCapacity, tref, "native" \in f)
         IN  [crash |-> FALSE, report |-> r.report, bytes |-> r.bytes]
    ELSE IF ub = "crash" THEN [crash |-> TRUE, report |-> ZLError(3), bytes |-> <<>>]
    ELSE IF ub = "error" THEN [crash |-> FALSE, report |-> ZLError(3), bytes |-> <<>>]
    ELSE LET r == ZL_CCtx_compressTypedRef("ZL_GRAPH_ZSTD", dstCapacity, tref, "native" \in f)
         IN  [crash |-> FALSE, report |-> r.report, bytes |-> r.bytes]

\* the tail shared by the five compress operations that return a new array:
\* native compress into the scratch buffer, then lines 317-339
CompressToNewArray(compressor_ptr, tref, max_compressed_size, t3, f, ub) ==
    LET c == CompressWithCtx(compressor_ptr, max_compressed_size, tref, f, ub)
        t4 == t3 \o <<Ev("read", "record", compressor_ptr),
                      Ev("call", "ZL_CCtx_compressTypedRef", 0)>>
    IN
    IF c.crash THEN Out(CrashRet, NoError, Append(t4, Ev("crash", "record", compressor_ptr)))
    ELSE
    LET t5 == t4 \o ReleaseAfterNative IN
    IF c.report.isError
    THEN Fail(NullRet, throw_openzl_report_error(c.report), t5 \o NativeErrorCleanup(compressor_ptr))
    ELSE
    LET compressed_size == c.report.v IN
    IF "new_array" \in f
    THEN Fail(NullRet, throw_out_of_memory, Append(t5, Ev("free", "scratch", 0)))
    ELSE Out(ArrayRet("jbyteArray", SetByteArrayRegion(c.bytes, compressed_size, 0)),
             NoError,
             t5 \o <<Ev("new", "jbyteArray", compressed_size), Ev("free", "scratch", 0)>>)

\* variant: the typed reference starts at the array, not at src_off
compressSerial_NoOffset(compressor_ptr, src, src_off, src_len, f, ub) ==
    IF InvalidHandle(compressor_ptr)
    THEN Fail(NullRet, throw_openzl_exception("[Error OpenZL JNI] Invalid compressor"), <<>>)
    ELSE IF "pin_src" \in f
    THEN Fail(NullRet, throw_out_of_memory, <<Ev("pinfail", "pin_src", 0)>>)
    ELSE
    LET t1 == <<Ev("pin", "pin_src", 0)>>
        max_compressed_size == ZL_compressBound(src_len)
    IN
    IF "malloc" \in f
    THEN Fail(NullRet, throw_out_of_memory, Append(t1, Ev("release", "pin_src", JNI_ABORT)))
    ELSE
    LET t2 == Append(t1, Ev("alloc", "scratch", 0)) IN
    IF "typed_ref" \in f
    THEN Fail(NullRet,
              throw_openzl_exception("[Error OpenZL JNI] Failed to create typed reference for serial data"),
              t2 \o TypedRefFailureCleanup)
    ELSE CompressToNewArray(compressor_ptr, ZL_TypedRef_createSerial(src, 0, src_len),
                            max_compressed_size, Append(t2, Ev("alloc", "typed_ref", 0)), f, ub)

\* compressSerial(compressor_ptr, src, src_off, src_len)
compressSerial(compressor_ptr, src, src_off, src_len, f, ub) ==
    IF InvalidHandle(compressor_ptr)
    THEN Fail(NullRet, throw_openzl_exception("[Error OpenZL JNI] Invalid compressor"), <<>>)
    ELSE IF "pin_src" \in f
    THEN Fail(NullRet, throw_out_of_memory, <<Ev("pinfail", "pin_src", 0)>>)
    ELSE
    LET t1 == <<Ev("pin", "pin_src", 0)>>
        max_compressed_size == ZL_compressBound(src_len)
    IN
    IF "malloc" \in f
    THEN Fail(NullRet, throw_out_of_memory, Append(t1, Ev("release", "pin_src", JNI_ABORT)))
    ELSE
    LET t2 == Append(t1, Ev("alloc", "scratch", 0)) IN
    IF "typed_ref" \in f
    THEN Fail(NullRet,
              throw_openzl_exception("[Error OpenZL JNI] Failed to create typed reference for serial data"),
              t2 \o TypedRefFailureCleanup)
    ELSE CompressToNewArray(compressor_ptr, ZL_TypedRef_createSerial(src, src_off, src_len),
                            max_compressed_size, Append(t2, Ev("alloc", "typed_ref", 0)), f, ub)

\* compressSerialToBuffer(compressor_ptr, src, src_off, src_len, dest,
\* dest_off, max_dest_len)
compressSerialToBuffer(compressor_ptr, src, src_off, src_len, dest, dest_off, max_dest_len, f, ub, isCopy) ==
    IF InvalidHandle(compressor_ptr)
    THEN [Fail(ToBufferSentinel, throw_openzl_exception("[Error OpenZL JNI] Invalid compressor"), <<>>)
          EXCEPT !.dest = dest]
    ELSE
    LET src_ok == "pin_src" \notin f
        dest_ok == "pin_dest" \notin f
        t1 == <<Ev(IF src_ok THEN "pin" ELSE "pinfail", "pin_src", 0),
                Ev(IF dest_ok THEN "pin" ELSE "pinfail", "pin_dest", 0)>>
    IN
    IF ~src_ok \/ ~dest_ok
    THEN [Fail(ToBufferSentinel, throw_out_of_memory,
               t1 \o PinFailureCleanup(src_ok, dest_ok))
          EXCEPT !.dest = IF dest_ok THEN ReleaseArrayElements(dest, dest, JNI_ABORT, isCopy)
                          ELSE dest]
    ELSE IF "typed_ref" \in f
    THEN [Fail(ToBufferSentinel,
               throw_openzl_exception("[Error OpenZL JNI] Failed to create typed reference"),
               t1 \o ToBufferTypedRefFailureCleanup)
          EXCEPT !.dest = ReleaseArrayElements(dest, dest, JNI_ABORT, isCopy)]
    ELSE
    LET typed_ref == ZL_TypedRef_createSerial(src, src_off, src_len)
        c == CompressWithCtx(compressor_ptr, DestCapacity(dest, dest_off, max_dest_len),
                             typed_ref, f, ub)
        t2 == t1 \o <<Ev("alloc", "typed_ref", 0), Ev("read", "record", compressor_ptr),
                      Ev("call", "ZL_CCtx_compressTypedRef", 0)>>
    IN
    IF c.crash
    THEN [Out(CrashRet, NoError, Append(t2, Ev("crash", "record", compressor_ptr)))
          EXCEPT !.dest = dest]
    ELSE
    LET dest_data == WriteAt(dest, dest_off, c.bytes)
        t3 == t2 \o <<Ev("free", "typed_ref", 0)>> \o ToBufferRelease
        dest_after == ReleaseArrayElements(dest, dest_data, JNI_COMMIT_AND_FREE, isCopy)
    IN
    IF c.report.isError
    THEN [Fail(ToBufferSentinel, throw_openzl_exception(ZL_ErrorCode_toString(c.report.v)), t3)
          EXCEPT !.dest = dest_after]
    ELSE [Out(IntRet(c.report.v), NoError, t3) EXCEPT !.dest = dest_after]

\* the four numeric compressors differ in the element type and in the text
\* of one message only: compressNumericInts with sizeof(jint) replaced by
\* width
compressNumericT(compressor_ptr, data, width, invalid_message, f, ub) ==
    IF InvalidHandle(compressor_ptr)
    THEN Fail(NullRet, throw_openzl_exception(invalid_message), <<>>)
    ELSE
    LET array_len == Len(data) IN
    IF "pin_src" \in f
    THEN Fail(NullRet, throw_out_of_memory, <<Ev("pinfail", "pin_src", 0)>>)
    ELSE
    LET t1 == <<Ev("pin", "pin_src", 0)>>
        input_size == array_len * width
        max_compressed_size == ZL_compressBound(input_size)
    IN
    IF "malloc" \in f
    THEN Fail(NullRet, throw_out_of_memory, Append(t1, Ev("release", "pin_src", JNI_ABORT)))
    ELSE
    LET t2 == Append(t1, Ev("alloc", "scratch", 0)) IN
    IF "typed_ref" \in f
    THEN Fail(NullRet,
              throw_openzl_exception("[Error OpenZL JNI] Failed to create typed reference for numeric data"),
              t2 \o TypedRefFailureCleanup)
    ELSE CompressToNewArray(compressor_ptr,
                            ZL_TypedRef_createNumeric(Flatten(data), width, array_len),
                            max_compressed_size, Append(t2, Ev("alloc", "typed_ref", 0)), f, ub)

compressNumericInts(compressor_ptr, data, f, ub) ==
    compressNumericT(compressor_ptr, data, SizeofJint,
                     "[Error OpenZL JNI] Invalid compressor", f, ub)

compressNumericLongs(compressor_ptr, data, f, ub) ==
    compressNumericT(compressor_ptr, data, SizeofJlong,
                     "[Error OpenZL JNI]  Invalid compressor", f, ub)

compressNumericFloats(compressor_ptr, data, f, ub) ==
    compressNumericT(compressor_ptr, data, SizeofJfloat,
                     "[Error OpenZL JNI] Invalid compressor", f, ub)

compressNumericDoubles(compressor_ptr, data, f, ub) ==
    compressNumericT(compressor_ptr, data, SizeofJdouble,
                     "[Error OpenZL JNI] Invalid compressor", f, ub)

----------------------------------------------------------------------------
(* Decompress operations *)

\* decompressSerial(decompressor_ptr, src, src_off, src_len): the record is
\* never read, ZL_decompress takes no context
decompressSerial(decompressor_ptr, src, src_off, src_len, f) ==
    IF InvalidHandle(decompressor_ptr)
    THEN Fail(NullRet, throw_openzl_exception("[Error OpenZL JNI] Invalid decompressor"), <<>>)
    ELSE IF "pin_src" \in f
    THEN Fail(NullRet, throw_out_of_memory, <<Ev("pinfail", "pin_src", 0)>>)
    ELSE
    LET t1 == <<Ev("pin", "pin_src", 0), Ev("call", "ZL_getDecompressedSize", 0)>>
        window == SubSeq(src, src_off + 1, src_off + src_len)
        size_report == IF "size_query" \in f THEN ZLError(3) ELSE ZL_getDecompressedSize(window)
    IN
    IF size_report.isError
    THEN Fail(NullRet, throw_openzl_report_error(size_report),
              Append(t1, Ev("release", "pin_src", JNI_ABORT)))
    ELSE
    LET decompressed_size == size_report.v IN
    IF "malloc" \in f
    THEN Fail(NullRet, throw_out_of_memory, Append(t1, Ev("release", "pin_src", JNI_ABORT)))
    ELSE
    LET d == ZL_decompress(decompressed_size, window, "native" \in f)
        t2 == t1 \o <<Ev("alloc", "scratch", 0), Ev("call", "ZL_decompress", 0),
                      Ev("release", "pin_src", JNI_ABORT)>>
    IN
    IF d.report.isError
    THEN Fail(NullRet, throw_openzl_report_error(d.report), Append(t2, Ev("free", "scratch", 0)))
    ELSE
    LET result_size == d.report.v IN
    IF "new_array" \in f
    THEN Fail(NullRet, throw_out_of_memory, Append(t2, Ev("free", "scratch", 0)))
    ELSE Out(ArrayRet("jbyteArray", SetByteArrayRegion(d.bytes, result_size, 0)), NoError,
             t2 \o <<Ev("new", "jbyteArray", result_size), Ev("free", "scratch", 0)>>)

\* decompressSerialToBuffer(decompressor_ptr, src, src_off, src_len, dest,
\* dest_off, max_dest_len)
decompressSerialToBuffer(decompressor_ptr, src, src_off, src_len, dest, dest_off, max_dest_len, f, isCopy) ==
    IF InvalidHandle(decompressor_ptr)
    THEN [Fail(ToBufferSentinel, throw_openzl_exception("[Error OpenZL JNI] Invalid decompressor"), <<>>)
          EXCEPT !.dest = dest]
    ELSE IF "pin_src" \in f
    THEN [Fail(ToBufferSentinel, throw_out_of_memory, <<Ev("pinfail", "pin_src", 0)>>)
          EXCEPT !.dest = dest]
    ELSE
    LET t1 == <<Ev("pin", "pin_src", 0)>> IN
    IF "pin_dest" \in f
    THEN [Fail(ToBufferSentinel, throw_out_of_memory,
               t1 \o <<Ev("pinfail", "pin_dest", 0), Ev("release", "pin_src", JNI_ABORT)>>)
          EXCEPT !.dest = dest]
    ELSE
    LET window == SubSeq(src, src_off + 1, src_off + src_len)
        d == ZL_decompress(DestCapacity(dest, dest_off, max_dest_len), window, "native" \in f)
        dest_data == WriteAt(dest, dest_off, d.bytes)
        t2 == t1 \o <<Ev("pin", "pin_dest", 0), Ev("call", "ZL_decompress", 0)>> \o ToBufferRelease
        dest_after == ReleaseArrayElements(dest, dest_data, JNI_COMMIT_AND_FREE, isCopy)
    IN
    IF d.report.isError
    THEN [Fail(ToBufferSentinel, throw_openzl_exception(ZL_ErrorCode_toString(d.report.v)), t2)
          EXCEPT !.dest = dest_after]
    ELSE [Out(IntRet(d.report.v), NoError, t2) EXCEPT !.dest = dest_after]

\* decompressor->ctx handed to ZL_DCtx_decompressTyped
DecompressWithCtx(decompressor_ptr, dstCapacity, b, f, ub) ==
    IF LiveDecompressor(decompressor_ptr) \/ ub = "garbage"
    THEN LET r == ZL_DCtx_decompressTyped(dstCapacity, b, "native" \in f)
         IN  [crash |-> FALSE, report |-> r.report, bytes |-> r.bytes,
              outputInfo |-> r.outputInfo]
    ELSE [crash |-> ub = "crash", report |-> ZLError(3), bytes |-> <<>>,
          outputInfo |-> [type |-> 0, fixedWidth |-> 0, numElts |-> 0]]

\* the four numeric decompressors differ in the element type only:
\* decompressNumericInts with jint replaced by an element of `width` bytes
\* and jintArray by arrayType; junk is what memory holds beyond the scratch
\* buffer
decompressNumericT(decompressor_ptr, src, width, arrayType, f, ub, junk) ==
    IF InvalidHandle(decompressor_ptr)
    THEN Fail(NullRet, throw_openzl_exception("[Error OpenZL JNI] Invalid decompressor"), <<>>)
    ELSE
    LET src_len == Len(src) IN
    IF "pin_src" \in f
    THEN Fail(NullRet, throw_out_of_memory, <<Ev("pinfail", "pin_src", 0)>>)
    ELSE
    LET t1 == <<Ev("pin", "pin_src", 0), Ev("call", "ZL_getDecompressedSize", 0)>>
        size_report == IF "size_query" \in f THEN ZLError(3) ELSE ZL_getDecompressedSize(src)
    IN
    IF size_report.isError
    THEN Fail(NullRet, throw_openzl_exception(ZL_ErrorCode_toString(size_report.v)),
              Append(t1, Ev("release", "pin_src", JNI_ABORT)))
    ELSE
    LET decompressed_size == size_report.v IN
    IF "malloc" \in f
    THEN Fail(NullRet, throw_out_of_memory, Append(t1, Ev("release", "pin_src", JNI_ABORT)))
    ELSE
    LET d == DecompressWithCtx(decompressor_ptr, decompressed_size, src, f, ub)
        t2 == t1 \o <<Ev("alloc", "scratch", 0), Ev("read", "record", decompressor_ptr),
                      Ev("call", "ZL_DCtx_decompressTyped", 0)>>
    IN
    IF d.crash THEN Out(CrashRet, NoError, Append(t2, Ev("crash", "record", decompressor_ptr)))
    ELSE
    LET t3 == Append(t2, Ev("release", "pin_src", JNI_ABORT)) IN
    IF d.report.isError
    THEN Fail(NullRet, throw_openzl_exception(ZL_ErrorCode_toString(d.report.v)),
              Append(t3, Ev("free", "scratch", 0)))
    ELSE
    LET array_len == d.outputInfo.numElts IN
    IF "new_array" \in f
    THEN Fail(NullRet, throw_out_of_memory, Append(t3, Ev("free", "scratch", 0)))
    ELSE Out(ArrayRet(arrayType, SetArrayRegion(d.bytes, width, array_len, junk)), NoError,
             t3 \o <<Ev("new", arrayType, array_len)>>
                \o (IF array_len * width > decompressed_size
                    THEN <<Ev("overread", "scratch", array_len * width - decompressed_size)>>
                    ELSE <<>>)
                \o <<Ev("free", "scratch", 0)>>)

decompressNumericInts(decompressor_ptr, src, f, ub, junk) ==
    decompressNumericT(decompressor_ptr, src, SizeofJint, "jintArray", f, ub, junk)

decompressNumericLongs(decompressor_ptr, src, f, ub, junk) ==
    decompressNumericT(decompressor_ptr, src, SizeofJlong, "jlongArray", f, ub, junk)

\* variant: decompressNumericFloats copies elements of the size of a jdouble
decompressNumericFloats_DoubleWidth(decompressor_ptr, src, f, ub, junk) ==
    decompressNumericT(decompressor_ptr, src, SizeofJdouble, "jfloatArray", f, ub, junk)

decompressNumericFloats(decompressor_ptr, src, f, ub, junk) ==
    decompressNumericT(decompressor_ptr, src, SizeofJfloat, "jfloatArray", f, ub, junk)

decompressNumericDoubles(decompressor_ptr, src, f, ub, junk) ==
    decompressNumericT(decompressor_ptr, src, SizeofJdouble, "jdoubleArray", f, ub, junk)

----------------------------------------------------------------------------
(* Frame introspection *)

ZL_getCompressedSize(b) == IF IsFrame(b) THEN ZLValue(Len(b)) ELSE ZLError(2)

ZL_FrameInfo_getDecompressedSize(b) == ZLValue(b[2] * b[3])

\* the output type code the library reports for output 0 of a frame: the
\* numbering is the library's own, so the code is the environment's choice
ZL_FrameInfo_getOutputType(b, output_code) == ZLValue(output_code)

\* the codes a frame's output type is drawn from
OutputTypeCodes == 0..4

\* the ids getCompressionInfo hands to CompressionGraph.fromId
DEFAULT_SERIAL == 0
GENERIC_NUMERIC == 1

\* the first switch of getCompressionInfo
DataTypeStr(output_type) ==
    CASE output_type = 0 -> "SERIAL"
      [] output_type = 2 -> "NUMERIC"
      [] output_type = 1 -> "STRUCT"
      [] output_type = 3 -> "STRING"
      [] OTHER -> "UNKNOWN"

\* variant: struct frames are tagged as numeric ones
InfoGraphId_StructIsNumeric(output_type) ==
    IF output_type \in {1, 2} THEN GENERIC_NUMERIC ELSE DEFAULT_SERIAL

\* the second switch of getCompressionInfo: the id given to
\* CompressionGraph.fromId
InfoGraphId(output_type) ==
    CASE output_type = 2 -> GENERIC_NUMERIC
      [] output_type = 0 -> DEFAULT_SERIAL
      [] OTHER -> DEFAULT_SERIAL

\* the failures the environment can inject into getCompressionInfo
InfoFaults ==
    {"pin_src", "size_query", "frame_info", "fi_size", "fi_type", "find_info_class",
     "get_ctor", "find_graph_class", "get_from_id", "from_id", "new_string", "new_object"}

\* variant: an empty array is handed on to the library
EmptyInput_Never(compressed_len) == FALSE

\* the emptiness test of getCompressionInfo
EmptyInput(compressed_len) == compressed_len <= 0

\* getCompressionInfo(compressed_data); is_null: the reference is null
getCompressionInfo(is_null, compressed_data, output_code, f) ==
    IF is_null
    THEN Fail(NullRet,
              throw_exception("java/lang/IllegalArgumentException",
                              "[Error OpenZL JNI] Compressed data cannot be null"), <<>>)
    ELSE
    LET compressed_len == Len(compressed_data) IN
    IF EmptyInput(compressed_len)
    THEN Fail(NullRet, throw_openzl_exception("[Error OpenZL JNI] Compressed data is empty"), <<>>)
    ELSE IF "pin_src" \in f
    THEN Fail(NullRet, throw_out_of_memory, <<Ev("pinfail", "pin_src", 0)>>)
    ELSE
    LET t1 == <<Ev("pin", "pin_src", 0), Ev("call", "ZL_getCompressedSize", 0)>>
        release == Ev("release", "pin_src", JNI_ABORT)
        compressed_size_result ==
            IF "size_query" \in f THEN ZLError(3) ELSE ZL_getCompressedSize(compressed_data)
    IN
    IF compressed_size_result.isError
    THEN Fail(NullRet, throw_openzl_exception("[Error OpenZL JNI] Failed to get compressed size"),
              Append(t1, release))
    ELSE IF "frame_info" \in f
    THEN Fail(NullRet, throw_openzl_exception("[Error OpenZL JNI] Failed to create frame info"),
              Append(t1, release))
    ELSE
    LET t2 == Append(t1, Ev("alloc", "frame_info", 0))
        free == Ev("free", "frame_info", 0)
        decompressed_size_result ==
            IF "fi_size" \in f THEN ZLError(3)
            ELSE ZL_FrameInfo_getDecompressedSize(compressed_data)
    IN
    IF decompressed_size_result.isError
    THEN Fail(NullRet, throw_openzl_exception("[Error OpenZL JNI] Failed to get decompressed size"),
              t2 \o <<free, release>>)
    ELSE
    LET output_type_result ==
            IF "fi_type" \in f THEN ZLError(3) ELSE ZL_FrameInfo_getOutputType(compressed_data, output_code)
    IN
    IF output_type_result.isError
    THEN Fail(NullRet, throw_openzl_exception("[Error OpenZL JNI] Failed to get output type"),
              t2 \o <<free, release>>)
    ELSE
    LET compressed_size == compressed_size_result.v
        decompressed_size == decompressed_size_result.v
        output_type == output_type_result.v
        data_type_str == DataTypeStr(output_type)
        t3 == t2 \o <<free, release>>
    IN
    IF "find_info_class" \in f
    THEN Fail(NullRet, throw_openzl_exception("[Error OpenZL JNI] Failed to find CompressionInfo class"), t3)
    ELSE IF "get_ctor" \in f
    THEN Fail(NullRet, throw_openzl_exception("[Error OpenZL JNI] Failed to find CompressionInfo constructor"), t3)
    ELSE IF "find_graph_class" \in f
    THEN Fail(NullRet, throw_openzl_exception("[Error OpenZL JNI] Failed to find CompressionGraph class"), t3)
    ELSE IF "get_from_id" \in f
    THEN Fail(NullRet, throw_openzl_exception("[Error OpenZL JNI] Failed to find CompressionGraph.fromId method"), t3)
    ELSE
    LET graph_id == InfoGraphId(output_type) IN
    IF "from_id" \in f
    THEN Fail(NullRet, throw_openzl_exception("[Error OpenZL JNI] Failed to create CompressionGraph object"), t3)
    ELSE IF "new_string" \in f
    THEN Fail(NullRet, throw_out_of_memory, t3)
    ELSE IF "new_object" \in f
    THEN Fail(NullRet, [cls |-> "java/lang/OutOfMemoryError", msg |-> "NewObject"], t3)
    ELSE Out([tag |-> "object", n |-> 0,
              data |-> <<[decompressed_size |-> decompressed_size,
                          compressed_size |-> compressed_size,
                          graph |-> graph_id, data_type |-> data_type_str]>>],
             NoError, Append(t3, Ev("new", "CompressionInfo", 0)))

----------------------------------------------------------------------------
(* The state machine: the host calls one native method at a time; the      *)
(* method runs to its return, and the host then takes the returned value   *)
(* and the pending exception before it calls again.                        *)

\* the arguments of a call, for the operations that take them
In(src, off, len, dest, doff, max, code) ==
    [src |-> src, off |-> off, len |-> len, dest |-> dest, doff |-> doff,
     max |-> max, code |-> code]

NoIn == In(<<>>, 0, 0, <<>>, 0, 0, 0)

SrcIn(src, off, len) == In(src, off, len, <<>>, 0, 0, 0)

\* a null array reference: it has no length
NullIn == In(<<>>, 0, -1, <<>>, 0, 0, 0)

\* no call is in progress or waiting to be taken
Idle ==
    [op |-> "idle", id |-> 0, in |-> NoIn, ret |-> VoidRet, err |-> NoError,
     trace |-> <<>>, dest |-> <<>>, heap0 |-> {}, state0 |-> "UNINIT", f |-> {}]

NoKept == [op |-> "none", in |-> NoIn, frame |-> <<>>]

\* the host threads of SpecThreads
Threads == {1, 2}

\* a thread outside the binding; addr is the handle it opened, 0 when it
\* has none
IdleThread(addr) ==
    [op |-> "idle", addr |-> addr, in |-> NoIn, f |-> {}, trace |-> <<>>, ret |-> VoidRet,
     err |-> NoError, newrec |-> NoRec, pc |-> 0]

NoThreads == [t \in Threads |-> IdleThread(0)]

\* the native heap after the events of a call
RECURSIVE ApplyTrace(_, _)
ApplyTrace(h, t) ==
    IF t = <<>> THEN h
    ELSE LET ev == Head(t)
             h1 == CASE ev.e = "alloc" -> h \cup {Obj(ev.o, ev.n)}
                     [] ev.e = "free" -> h \ {Obj(ev.o, ev.n)}
                     [] ev.e = "pin" -> h \cup {Obj(ev.o, 0)}
                     [] ev.e = "release" -> h \ {Obj(ev.o, 0)}
                     [] OTHER -> h
         IN  ApplyTrace(h1, Tail(t))

\* the life-cycle state of the handle an id names; an id that is no address
\* open ever returned names a handle that was never opened
StateOf(id) == IF id \in Ids THEN hstate[id] ELSE "UNINIT"

\* the method op, called with id and arguments in, ran to outcome out while
\* the steps in f failed
Called(op, id, in, f, out) ==
    /\ last.op = "idle"
    /\ last' = [op |-> op, id |-> id, in |-> in, ret |-> out.ret, err |-> out.err,
                trace |-> out.trace, dest |-> out.dest, heap0 |-> heap,
                state0 |-> StateOf(id), f |-> f]
    /\ heap' = ApplyTrace(heap, out.trace)
    /\ kept' = kept
    /\ thr' = thr

\* a compress, decompress or introspection call: no handle is touched
Operation(op, id, in, f, out) ==
    /\ Called(op, id, in, f, out)
    /\ UNCHANGED <<rec, hstate>>

\* the fault sets of one call: nothing fails, or one step does
Singles(S) == {{}} \cup {{x} : x \in S}

\* the address malloc returns for the next handle record
FreshAddr == CHOOSE a \in Ids : hstate[a] = "UNINIT" /\ \A b \in Ids : hstate[b] = "UNINIT" => a <= b

UBFor(live) == IF live THEN {"garbage"} ELSE UBOutcomes

Opened(op, code, f, out) ==
    /\ Called(op, 0, In(<<>>, 0, 0, <<>>, 0, 0, code), f, out)
    /\ rec' = IF out.ret.n # 0 THEN [rec EXCEPT ![out.ret.n] = out.rec] ELSE rec
    /\ hstate' = IF out.ret.n # 0 THEN [hstate EXCEPT ![out.ret.n] = "READY"] ELSE hstate

OpenCompressor(codes) ==
    /\ last.op = "idle"
    /\ \E a \in Ids : hstate[a] = "UNINIT"
    /\ \E graph_id \in codes, f \in Singles(CreateCompressorFaults) :
          Opened("createCompressor", graph_id, f, createCompressor(FreshAddr, graph_id, f))

OpenDecompressor ==
    /\ last.op = "idle"
    /\ \E a \in Ids : hstate[a] = "UNINIT"
    /\ \E f \in Singles(CreateDecompressorFaults) :
          Opened("createDecompressor", 0, f, createDecompressor(FreshAddr, f))

Closed(op, id, out) ==
    /\ Called(op, id, NoIn, {}, out)
    /\ LET freed == id \in Ids /\ Obj("record", id) \in heap /\ Obj("record", id) \notin heap'
       IN  /\ rec' = IF freed THEN [rec EXCEPT ![id] = NoRec] ELSE rec
           /\ hstate' = IF freed THEN [hstate EXCEPT ![id] = "CLOSED"] ELSE hstate

CloseCompressor ==
    /\ last.op = "idle"
    /\ \E id \in IdArgs : \E ub \in UBFor(id = 0 \/ LiveCompressor(id)) \ {"error"} :
           Closed("destroyCompressor", id, destroyCompressor(id, ub))

CloseDecompressor ==
    /\ last.op = "idle"
    /\ \E id \in IdArgs : \E ub \in UBFor(id = 0 \/ LiveDecompressor(id)) \ {"error"} :
           Closed("destroyDecompressor", id, destroyDecompressor(id, ub))

CompressFaults == Singles({"pin_src", "malloc", "typed_ref", "native", "new_array"})

ToBufferFaults == Singles({"pin_src", "pin_dest", "typed_ref", "native"}) \cup {{"pin_src", "pin_dest"}}

DecompressFaults == Singles({"pin_src", "size_query", "malloc", "native", "new_array"})

CompressSerial(ids, inputs) ==
    /\ last.op = "idle"
    /\ \E id \in ids, x \in inputs, f \in CompressFaults :
       \E ub \in UBFor(id = 0 \/ LiveCompressor(id)) :
           Operation("compressSerial", id, SrcIn(x[1], x[2], x[3]), f,
                     compressSerial(id, x[1], x[2], x[3], f, ub))

CompressSerialToBuffer(ids, inputs, dests) ==
    /\ last.op = "idle"
    /\ \E id \in ids, x \in inputs, d \in dests, f \in ToBufferFaults, isCopy \in BOOLEAN :
       \E ub \in UBFor(id = 0 \/ LiveCompressor(id)) :
           Operation("compressSerialToBuffer", id, In(x[1], x[2], x[3], d[1], d[2], d[3], 0), f,
                     compressSerialToBuffer(id, x[1], x[2], x[3], d[1], d[2], d[3], f, ub, isCopy))

CompressNumericInts(ids, inputs) ==
    /\ last.op = "idle"
    /\ \E id \in ids, data \in inputs, f \in CompressFaults :
       \E ub \in UBFor(id = 0 \/ LiveCompressor(id)) :
           Operation("compressNumericInts", id, SrcIn(data, 0, Len(data)), f,
                     compressNumericInts(id, data, f, ub))

CompressNumericLongs(ids, inputs) ==
    /\ last.op = "idle"
    /\ \E id \in ids, data \in inputs, f \in CompressFaults :
       \E ub \in UBFor(id = 0 \/ LiveCompressor(id)) :
           Operation("compressNumericLongs", id, SrcIn(data, 0, Len(data)), f,
                     compressNumericLongs(id, data, f, ub))

CompressNumericFloats(ids, inputs) ==
    /\ last.op = "idle"
    /\ \E id \in ids, data \in inputs, f \in CompressFaults :
       \E ub \in UBFor(id = 0 \/ LiveCompressor(id)) :
           Operation("compressNumericFloats", id, SrcIn(data, 0, Len(data)), f,
                     compressNumericFloats(id, data, f, ub))

CompressNumericDoubles(ids, inputs) ==
    /\ last.op = "idle"
    /\ \E id \in ids, data \in inputs, f \in CompressFaults :
       \E ub \in UBFor(id = 0 \/ LiveCompressor(id)) :
           Operation("compressNumericDoubles", id, SrcIn(data, 0, Len(data)), f,
                     compressNumericDoubles(id, data, f, ub))

DecompressSerial(ids, inputs) ==
    /\ last.op = "idle"
    /\ \E id \in ids, x \in inputs, f \in DecompressFaults :
           Operation("decompressSerial", id, SrcIn(x[1], x[2], x[3]), f,
                     decompressSerial(id, x[1], x[2], x[3], f))

DecompressSerialToBuffer(ids, inputs, dests) ==
    /\ last.op = "idle"
    /\ \E id \in ids, x \in inputs, d \in dests, isCopy \in BOOLEAN :
       \E f \in Singles({"pin_src", "pin_dest", "native"}) :
           Operation("decompressSerialToBuffer", id, In(x[1], x[2], x[3], d[1], d[2], d[3], 0), f,
                     decompressSerialToBuffer(id, x[1], x[2], x[3], d[1], d[2], d[3], f, isCopy))

\* the bytes memory can hold beyond a scratch buffer, when a call reads them
JunkFor(src, width) ==
    IF IsFrame(src) /\ src[3] * width > src[2] * src[3] THEN Bytes ELSE {0}

DecompressNumericInts(ids, inputs) ==
    /\ last.op = "idle"
    /\ \E id \in ids, src \in inputs, f \in DecompressFaults :
       \E junk \in JunkFor(src, SizeofJint) :
       \E ub \in UBFor(id = 0 \/ LiveDecompressor(id)) :
           Operation("decompressNumericInts", id, SrcIn(src, 0, Len(src)), f,
                     decompressNumericInts(id, src, f, ub, junk))

DecompressNumericLongs(ids, inputs) ==
    /\ last.op = "idle"
    /\ \E id \in ids, src \in inputs, f \in DecompressFaults :
       \E junk \in JunkFor(src, SizeofJlong) :
       \E ub \in UBFor(id = 0 \/ LiveDecompressor(id)) :
           Operation("decompressNumericLongs", id, SrcIn(src, 0, Len(src)), f,
                     decompressNumericLongs(id, src, f, ub, junk))

DecompressNumericFloats(ids, inputs) ==
    /\ last.op = "idle"
    /\ \E id \in ids, src \in inputs, f \in DecompressFaults :
       \E junk \in JunkFor(src, SizeofJfloat) :
       \E ub \in UBFor(id = 0 \/ LiveDecompressor(id)) :
           Operation("decompressNumericFloats", id, SrcIn(src, 0, Len(src)), f,
                     decompressNumericFloats(id, src, f, ub, junk))

DecompressNumericDoubles(ids, inputs) ==
    /\ last.op = "idle"
    /\ \E id \in ids, src \in inputs, f \in DecompressFaults :
       \E junk \in JunkFor(src, SizeofJdouble) :
       \E ub \in UBFor(id = 0 \/ LiveDecompressor(id)) :
           Operation("decompressNumericDoubles", id, SrcIn(src, 0, Len(src)), f,
                     decompressNumericDoubles(id, src, f, ub, junk))

GetCompressionInfo(inputs) ==
    /\ last.op = "idle"
    /\ \E is_null \in BOOLEAN, src \in inputs, code \in OutputTypeCodes, f \in Singles(InfoFaults) :
           /\ is_null => src = <<>> /\ f = {}
           /\ (is_null \/ ~IsFrame(src)) => code = 0
           /\ Operation("getCompressionInfo", 0,
                        IF is_null THEN NullIn ELSE In(src, 0, Len(src), <<>>, 0, 0, code), f,
                        getCompressionInfo(is_null, src, code, f))

\* the host takes the result of the call: the value and the exception are
\* consumed; a process that died inside the call takes nothing
Return ==
    /\ last.op # "idle"
    /\ last.ret.tag # "crash"
    /\ last' = Idle
    /\ UNCHANGED <<heap, rec, hstate, kept, thr>>

CompressToArrayOps ==
    {"compressSerial", "compressNumericInts", "compressNumericLongs",
     "compressNumericFloats", "compressNumericDoubles"}

\* the host takes the array a compress call returned and keeps it, with the
\* arguments it came from, to decompress it later
ReturnKeep ==
    /\ last.op \in CompressToArrayOps
    /\ last.ret.tag = "jbyteArray"
    /\ kept' = [op |-> last.op, in |-> last.in, frame |-> last.ret.data]
    /\ last' = Idle
    /\ UNCHANGED <<heap, rec, hstate, thr>>

----------------------------------------------------------------------------
(* Spec: every native method, on every id, with every injected failure,    *)
(* over a sample of arrays.                                                *)

ElemLow(width) == [j \in 1..width |-> IF j = 1 THEN 255 ELSE 0]
ElemHigh(width) == [j \in 1..width |-> IF j = width THEN 255 ELSE 0]

\* serial sources: <<array, offset, length>>
SampleSerial == {<< <<0, 255>>, 0, 2 >>, << <<0, 255>>, 1, 1 >>, << <<>>, 0, 0 >>}

\* destinations: <<array, offset, max length>>
SampleDests == {<< [i \in 1..8 |-> 0], 0, 8 >>, << [i \in 1..8 |-> 0], 1, 5 >>}

SampleNumeric(width) == {<<>>, <<ElemLow(width), ElemHigh(width)>>}

SerialFrame == FrameOf("ZL_GRAPH_ZSTD", ZL_TypedRef_createSerial(<<0, 255>>, 0, 2))
IntsFrame ==
    FrameOf("ZL_GRAPH_FIELD_LZ",
            ZL_TypedRef_createNumeric(Flatten(<<ElemLow(SizeofJint), ElemHigh(SizeofJint)>>),
                                      SizeofJint, 2))
LongsFrame ==
    FrameOf("ZL_GRAPH_STORE",
            ZL_TypedRef_createNumeric(Flatten(<<ElemHigh(SizeofJlong)>>), SizeofJlong, 1))

\* compressed sources: frames of each kind, and bytes that are no frame
SampleFrames == {SerialFrame, IntsFrame, LongsFrame, <<255>>}

\* compressed sources with their window: whole arrays, and a frame that
\* starts one byte into its array
SampleFrameWindows ==
    {<<b, 0, Len(b)>> : b \in SampleFrames} \cup {<< <<255>> \o SerialFrame, 1, Len(SerialFrame) >>}

Init ==
    /\ heap = {}
    /\ rec = [a \in Ids |-> NoRec]
    /\ hstate = [a \in Ids |-> "UNINIT"]
    /\ last = Idle
    /\ kept = NoKept
    /\ thr = NoThreads

\* the graph codes of Spec: the default pipeline and Store
SampleCodes == {0, 3}

Next ==
    \/ OpenCompressor(SampleCodes)
    \/ CloseCompressor
    \/ OpenDecompressor
    \/ CloseDecompressor
    \/ CompressSerial(IdArgs, SampleSerial)
    \/ CompressSerialToBuffer(IdArgs, SampleSerial, SampleDests)
    \/ CompressNumericInts(IdArgs, SampleNumeric(SizeofJint))
    \/ CompressNumericLongs(IdArgs, SampleNumeric(SizeofJlong))
    \/ CompressNumericFloats(IdArgs, SampleNumeric(SizeofJfloat))
    \/ CompressNumericDoubles(IdArgs, SampleNumeric(SizeofJdouble))
    \/ DecompressSerial(IdArgs, SampleFrameWindows)
    \/ DecompressSerialToBuffer(IdArgs, SampleFrameWindows, SampleDests)
    \/ DecompressNumericInts(IdArgs, SampleFrames)
    \/ DecompressNumericLongs(IdArgs, SampleFrames)
    \/ DecompressNumericFloats(IdArgs, SampleFrames)
    \/ DecompressNumericDoubles(IdArgs, SampleFrames)
    \/ GetCompressionInfo(SampleFrames \cup {<<>>})
    \/ Return

Spec == Init /\ [][Next]_vars

----------------------------------------------------------------------------
(* SpecHandles: the handle registry alone, with every graph code.          *)

NextHandles ==
    \/ OpenCompressor(GraphCodes)
    \/ CloseCompressor
    \/ OpenDecompressor
    \/ CloseDecompressor
    \/ Return

SpecHandles == Init /\ [][NextHandles]_vars

----------------------------------------------------------------------------
(* SpecRT: a compressor opened with any graph code and a decompressor;     *)
(* every array within the bounds is compressed, the host keeps the result  *)
(* and decompresses what it kept.                                          *)

\* every window of every byte array
AllSerial == UNION {{<<b, w[1], w[2]>> : w \in Windows(Len(b))} : b \in ByteArrays}

\* what the host kept, whole
KeptFrames == IF kept.op = "none" THEN {} ELSE {kept.frame}

KeptWindows == {<<b, 0, Len(b)>> : b \in KeptFrames}

\* the state after createCompressor(G) returned address 1 and
\* createDecompressor() returned address 2
InitRT ==
    \E G \in GraphCodes :
        LET oc == createCompressor(1, G, {})
            od == createDecompressor(2, {})
        IN  /\ heap = ApplyTrace(ApplyTrace({}, oc.trace), od.trace)
            /\ rec = [a \in Ids |-> IF a = 1 THEN oc.rec ELSE IF a = 2 THEN od.rec ELSE NoRec]
            /\ hstate = [a \in Ids |-> IF a \in {1, 2} THEN "READY" ELSE "UNINIT"]
            /\ last = Idle
            /\ kept = NoKept
            /\ thr = NoThreads

\* destinations for the frame of a source of len bytes: an array with room
\* to spare used whole, and a window of exactly ZL_compressBound(len) bytes
\* one byte into an array that holds other bytes
RTDestLen == MaxLen + FrameHeaderLen + 2

RTDests(len) ==
    {<< [i \in 1..RTDestLen |-> 0], 0, RTDestLen >>,
     << [i \in 1..RTDestLen |-> 170], 1, ZL_compressBound(len) >>}

\* the host compresses until it keeps a frame, then decompresses that frame
NextRT ==
    \/ kept.op = "none" /\ CompressSerial({1}, AllSerial)
    \/ kept.op = "none" /\ CompressNumericInts({1}, NumericArrays(SizeofJint))
    \/ kept.op = "none" /\ CompressNumericLongs({1}, NumericArrays(SizeofJlong))
    \/ kept.op = "none" /\ CompressNumericFloats({1}, NumericArrays(SizeofJfloat))
    \/ kept.op = "none" /\ CompressNumericDoubles({1}, NumericArrays(SizeofJdouble))
    \/ ReturnKeep
    \/ /\ kept.op = "compressSerial"
       /\ CompressSerialToBuffer({1}, {<<kept.in.src, kept.in.off, kept.in.len>>},
                                 RTDests(kept.in.len))
    \/ DecompressSerial({2}, KeptWindows)
    \/ DecompressNumericInts({2}, KeptFrames)
    \/ DecompressNumericLongs({2}, KeptFrames)
    \/ DecompressNumericFloats({2}, KeptFrames)
    \/ DecompressNumericDoubles({2}, KeptFrames)
    \/ Return

SpecRT == InitRT /\ [][NextRT]_vars

----------------------------------------------------------------------------
(* SpecThreads: two host threads, each with a handle of its own, inside    *)
(* the binding at the same time.  A native method runs one event of its    *)
(* trace at a time, and the events of the two threads interleave.  The     *)
(* binding takes no lock and has no variable outside its handle records,   *)
(* so the only state the threads share is the native heap.                 *)

\* the arrays the threads compress and decompress
ThreadSerial == {<< <<0, 255>>, 0, 2 >>}
ThreadFrames == {IntsFrame}

\* the failures injected into the calls of the threads
ThreadOpenFaults == Singles({"ZL_Compressor_create", "refCompressor"})
ThreadCallFaults == Singles({"native"})

\* the handle-owned objects, which live in the heap the threads share; the
\* pins, scratch buffers and typed references of a call belong to its thread
SharedKinds == {"record", "CCtx", "Compressor", "DCtx"}

\* thread t enters a native method
ThreadCalled(t, op, addr, in, f, out, newrec) ==
    /\ thr' = [thr EXCEPT ![t] = [op |-> op, addr |-> addr, in |-> in, f |-> f,
                                  trace |-> out.trace, ret |-> out.ret, err |-> out.err,
                                  newrec |-> newrec, pc |-> 0]]
    /\ UNCHANGED <<heap, rec, hstate, last, kept>>

\* the addresses malloc can return to thread t: no block that is in use or
\* was used, and not the block another thread is being given
FreeAddrs(t) ==
    {a \in Ids : hstate[a] = "UNINIT" /\ \A u \in Threads \ {t} : thr[u].addr # a}

ThreadOpenCompressor(t) ==
    /\ thr[t].op = "idle" /\ thr[t].addr = 0
    /\ \E a \in FreeAddrs(t), graph_id \in SampleCodes, f \in ThreadOpenFaults :
           LET out == createCompressor(a, graph_id, f)
           IN  ThreadCalled(t, "createCompressor", a, In(<<>>, 0, 0, <<>>, 0, 0, graph_id), f,
                            out, out.rec)

ThreadOpenDecompressor(t) ==
    /\ thr[t].op = "idle" /\ thr[t].addr = 0
    /\ \E a \in FreeAddrs(t), f \in Singles(CreateDecompressorFaults) :
           LET out == createDecompressor(a, f)
           IN  ThreadCalled(t, "createDecompressor", a, NoIn, f, out, out.rec)

ThreadCompress(t) ==
    /\ thr[t].op = "idle" /\ LiveCompressor(thr[t].addr)
    /\ \E x \in ThreadSerial, f \in ThreadCallFaults :
           ThreadCalled(t, "compressSerial", thr[t].addr, SrcIn(x[1], x[2], x[3]), f,
                        compressSerial(thr[t].addr, x[1], x[2], x[3], f, "garbage"), NoRec)

ThreadDecompress(t) ==
    /\ thr[t].op = "idle" /\ LiveDecompressor(thr[t].addr)
    /\ \E src \in ThreadFrames, f \in ThreadCallFaults :
           ThreadCalled(t, "decompressNumericInts", thr[t].addr, SrcIn(src, 0, Len(src)), f,
                        decompressNumericInts(thr[t].addr, src, f, "garbage", 0), NoRec)

ThreadCloseCompressor(t) ==
    /\ thr[t].op = "idle" /\ LiveCompressor(thr[t].addr)
    /\ ThreadCalled(t, "destroyCompressor", thr[t].addr, NoIn, {},
                    destroyCompressor(thr[t].addr, "garbage"), NoRec)

ThreadCloseDecompressor(t) ==
    /\ thr[t].op = "idle" /\ LiveDecompressor(thr[t].addr)
    /\ ThreadCalled(t, "destroyDecompressor", thr[t].addr, NoIn, {},
                    destroyDecompressor(thr[t].addr, "garbage"), NoRec)

\* thread t runs the next event of the method it is in
ThreadStep(t) ==
    /\ thr[t].op # "idle" /\ thr[t].pc < Len(thr[t].trace)
    /\ LET ev == thr[t].trace[thr[t].pc + 1]
       IN  heap' = IF ev.o \in SharedKinds THEN ApplyTrace(heap, <<ev>>) ELSE heap
    /\ thr' = [thr EXCEPT ![t].pc = @ + 1]
    /\ UNCHANGED <<rec, hstate, last, kept>>

\* the method thread t is in returns: an open hands the record it filled to
\* the host, a close leaves the thread without handle
ThreadReturn(t) ==
    /\ thr[t].op # "idle" /\ thr[t].pc = Len(thr[t].trace)
    /\ LET c == thr[t]
           opened == c.op \in {"createCompressor", "createDecompressor"} /\ c.ret.n # 0
           closed == c.op \in {"destroyCompressor", "destroyDecompressor"}
       IN  /\ rec' = IF opened THEN [rec EXCEPT ![c.addr] = c.newrec]
                     ELSE IF closed THEN [rec EXCEPT ![c.addr] = NoRec] ELSE rec
           /\ hstate' = IF opened THEN [hstate EXCEPT ![c.addr] = "READY"]
                        ELSE IF closed THEN [hstate EXCEPT ![c.addr] = "CLOSED"] ELSE hstate
           /\ thr' = [thr EXCEPT ![t] =
                         IdleThread(IF closed \/ (c.op \in {"createCompressor", "createDecompressor"}
                                                   /\ ~opened)
                                    THEN 0 ELSE c.addr)]
    /\ UNCHANGED <<heap, last, kept>>

NextThreads ==
    \E t \in Threads :
        \/ ThreadOpenCompressor(t)
        \/ ThreadOpenDecompressor(t)
        \/ ThreadCompress(t)
        \/ ThreadDecompress(t)
        \/ ThreadCloseCompressor(t)
        \/ ThreadCloseDecompressor(t)
        \/ ThreadStep(t)
        \/ ThreadReturn(t)

SpecThreads == Init /\ [][NextThreads]_vars

----------------------------------------------------------------------------
(* Vocabulary of the properties *)

OpenOps == {"createCompressor", "createDecompressor"}
CloseOps == {"destroyCompressor", "destroyDecompressor"}
CompressOps == CompressToArrayOps \cup {"compressSerialToBuffer"}
NumericDecompressOps ==
    {"decompressNumericInts", "decompressNumericLongs", "decompressNumericFloats",
     "decompressNumericDoubles"}
DecompressOps == NumericDecompressOps \cup {"decompressSerial", "decompressSerialToBuffer"}
ToBufferOps == {"compressSerialToBuffer", "decompressSerialToBuffer"}
\* the operations that take a handle id and data
HandleOps == CompressOps \cup DecompressOps
\* the operations that pin arrays and take scratch memory
DataOps == HandleOps \cup {"getCompressionInfo"}

\* the call that ran last has returned to the host
Returned == last.op # "idle" /\ last.ret.tag # "crash"

\* the error kinds of the specification
ErrKind(err) ==
    CASE err.cls = "none" -> "NONE"
      [] err.cls = "java/lang/OutOfMemoryError" -> "OUT_OF_MEMORY"
      [] err.cls = "java/lang/IllegalArgumentException" -> "ILLEGAL_ARGUMENT"
      [] err.cls = "net/openzl/OpenZLException" ->
            IF err.msg \in {"[Error OpenZL JNI] Invalid compressor",
                            "[Error OpenZL JNI]  Invalid compressor",
                            "[Error OpenZL JNI] Invalid decompressor"}
            THEN "INVALID_HANDLE" ELSE "NATIVE_ERROR"
      [] OTHER -> "OTHER"

\* the value an operation returns when it fails
Sentinel(op) ==
    IF op \in OpenOps THEN IntRet(0)
    ELSE IF op \in ToBufferOps THEN IntRet(-1)
    ELSE NullRet

IsSentinel(op, ret) == ret.tag = Sentinel(op).tag /\ ret.n = Sentinel(op).n

\* the positions of the events of kind e on object o in a trace
Where(t, e, o) == {i \in 1..Len(t) : t[i].e = e /\ t[i].o = o}

\* o was acquired (by acq) at most once, released (by rel) exactly as often,
\* and after it was acquired
PairedOnce(t, acq, rel, o) ==
    /\ Cardinality(Where(t, acq, o)) <= 1
    /\ Cardinality(Where(t, rel, o)) = Cardinality(Where(t, acq, o))
    /\ \A i \in Where(t, acq, o), j \in Where(t, rel, o) : i < j

\* the allocations of handle-owned objects in a trace
OwnedKinds == {"record", "CCtx", "Compressor", "DCtx"}

----------------------------------------------------------------------------
(* Properties *)

\* C1: when a step of createCompressor or createDecompressor fails, the call
\* returns 0 with an exception pending, every record, context and descriptor
\* it allocated was freed exactly once before the exception was raised, and
\* the native heap is what it was before the call.
C1_OpenRollsBack ==
    (last.op \in OpenOps /\ last.f # {}) =>
        /\ last.ret = IntRet(0)
        /\ last.err.cls # "none"
        /\ heap = last.heap0
        /\ \A k \in OwnedKinds : \A a \in Ids :
              /\ Cardinality({i \in 1..Len(last.trace) :
                                 last.trace[i] = Ev("alloc", k, a)}) =
                 Cardinality({i \in 1..Len(last.trace) :
                                 last.trace[i] = Ev("free", k, a)})
              /\ \A i \in 1..Len(last.trace) :
                    last.trace[i] = Ev("free", k, a) =>
                        /\ \E j \in 1..(i - 1) : last.trace[j] = Ev("alloc", k, a)
                        /\ \E j \in (i + 1)..Len(last.trace) : last.trace[j].e = "throw"

\* createCompressor failed at its last step, after the record, the context
\* and the descriptor existed
C1_Witness ==
    /\ last.op = "createCompressor"
    /\ last.f = {"refCompressor"}
    /\ Cardinality({i \in 1..Len(last.trace) : last.trace[i].e = "alloc"}) = 3
    /\ heap = last.heap0

\* C2: in every compress, decompress and introspection call that returns,
\* each array is pinned at most once, an array that was pinned is released
\* exactly once and after its pin, an array whose pin failed is never
\* released, and no pin is left when the call has returned.
C2_PinsReleasedOnce ==
    (last.op \in DataOps /\ Returned) =>
        \A a \in {"pin_src", "pin_dest"} :
            /\ PairedOnce(last.trace, "pin", "release", a)
            /\ Where(last.trace, "pinfail", a) # {} => Where(last.trace, "release", a) = {}
            /\ Obj(a, 0) \notin heap

\* compressSerialToBuffer pinned the source, failed to pin the destination,
\* and released the source only
C2_Witness ==
    /\ last.op = "compressSerialToBuffer"
    /\ last.f = {"pin_dest"}
    /\ Where(last.trace, "pin", "pin_src") # {}
    /\ Where(last.trace, "release", "pin_src") # {}
    /\ Where(last.trace, "pinfail", "pin_dest") # {}
    /\ Where(last.trace, "release", "pin_dest") = {}

C5_AsStated ==
    (last.op \in HandleOps /\ last.id <= 0) =>
        /\ ErrKind(last.err) = "INVALID_HANDLE"
        /\ Where(last.trace, "read", "record") = {}

\* C5, amended: a compress or decompress call with id 0 fails with
\* INVALID_HANDLE before anything else happens; a negative id is not
\* rejected: the call never raises INVALID_HANDLE and goes on as for any
\* non-zero id, pinning its source array first.
C5_ZeroRejectedNegativeUsed ==
    /\ (last.op \in HandleOps /\ last.id = 0) =>
          /\ ErrKind(last.err) = "INVALID_HANDLE"
          /\ Len(last.trace) = 1
          /\ last.trace[1].e = "throw"
    /\ (last.op \in HandleOps /\ last.id < 0) =>
          /\ ErrKind(last.err) # "INVALID_HANDLE"
          /\ last.trace # <<>>
          /\ last.trace[1].e \in {"pin", "pinfail"}

\* compressSerial with id -1 reached the native call with the id as its
\* record
C5_Witness ==
    /\ last.op = "compressSerial"
    /\ last.id = -1
    /\ Where(last.trace, "pin", "pin_src") # {}
    /\ Where(last.trace, "read", "record") # {}

\* C6: each of the twelve compress and decompress operations called with
\* id 0 raises INVALID_HANDLE and returns its sentinel (null, or -1 for the
\* _to_buffer operations); it pins no array, allocates nothing, and leaves
\* the destination array and the native heap as they were.
C6_ZeroIdAcquiresNothing ==
    (last.op \in HandleOps /\ last.id = 0) =>
        /\ ErrKind(last.err) = "INVALID_HANDLE"
        /\ last.ret = Sentinel(last.op)
        /\ \A i \in 1..Len(last.trace) : last.trace[i].e = "throw"
        /\ last.op \in ToBufferOps => last.dest = last.in.dest
        /\ heap = last.heap0

\* decompressSerialToBuffer with id 0, a frame as source and a destination
\* with room
C6_Witness ==
    /\ last.op = "decompressSerialToBuffer"
    /\ last.id = 0
    /\ last.in.src \in SampleFrames
    /\ last.in.max > 0
    /\ last.ret = IntRet(-1)
    /\ last.dest = last.in.dest

\* C7: a call of an open, compress, decompress or introspection operation
\* that returns has an exception pending exactly when it returns its
\* sentinel (0 for open, -1 for _to_buffer, null otherwise); the close
\* operations raise nothing.
C7_ErrorIffSentinel ==
    /\ (last.op \in OpenOps \cup DataOps /\ Returned) =>
          (last.err.cls # "none" <=> IsSentinel(last.op, last.ret))
    /\ (last.op \in OpenOps \cup DataOps /\ Returned /\ last.err.cls # "none") =>
          /\ Len(last.trace) > 0
          /\ last.trace[Len(last.trace)] = Ev("throw", last.err.cls, 0)
    /\ (last.op \in CloseOps) => last.err.cls = "none"

\* decompressSerial on a live decompressor, the native decompress failed
C7_Witness ==
    /\ last.op = "decompressSerial"
    /\ last.f = {"native"}
    /\ last.state0 = "READY"
    /\ ErrKind(last.err) = "NATIVE_ERROR"
    /\ last.ret = NullRet

\* the graph selection table of the specification
GraphTable(code) ==
    IF code \in {1, 9} THEN "ZL_GRAPH_COMPRESS_GENERIC"
    ELSE IF code = 2 THEN "ZL_GRAPH_FIELD_LZ"
    ELSE IF code = 3 THEN "ZL_GRAPH_STORE"
    ELSE IF code = 4 THEN "ZL_GRAPH_FSE"
    ELSE IF code = 5 THEN "ZL_GRAPH_HUFFMAN"
    ELSE IF code = 6 THEN "ZL_GRAPH_ENTROPY"
    ELSE IF code = 7 THEN "ZL_GRAPH_BITPACK"
    ELSE IF code = 8 THEN "ZL_GRAPH_CONSTANT"
    ELSE "ZL_GRAPH_ZSTD"

\* C8: a successful createCompressor stores in the handle record the
\* pipeline the graph selection table gives for its graph code (0 and every
\* code outside 1..9 give ZSTD), and that pipeline is the starting graph
\* selected on the descriptor the context references.
C8_GraphTable ==
    (last.op = "createCompressor" /\ last.ret.n # 0) =>
        /\ rec[last.ret.n].kind = "compressor"
        /\ rec[last.ret.n].graph_id = GraphTable(last.in.code)
        /\ rec[last.ret.n].start = GraphTable(last.in.code)
        /\ rec[last.ret.n].refd

\* createCompressor(9) selected the generic pipeline
C8_Witness ==
    /\ last.op = "createCompressor"
    /\ last.in.code = 9
    /\ last.ret.n # 0
    /\ rec[last.ret.n].start = "ZL_GRAPH_COMPRESS_GENERIC"

\* the bytes compressSerial was asked to compress when the kept frame was made
KeptBytes == SubSeq(kept.in.src, kept.in.off + 1, kept.in.off + kept.in.len)

\* C9: for every byte array, every (offset, length) window of it and every
\* graph code, decompressSerial on the array compressSerial returned for
\* the window returns exactly the bytes of the window when no step of it
\* fails, and null with an exception pending when one does.
C9_SerialRoundTrip ==
    (last.op = "decompressSerial" /\ kept.op = "compressSerial") =>
        /\ last.in.src = kept.frame
        /\ IF last.f = {}
           THEN /\ last.ret = ArrayRet("jbyteArray", KeptBytes)
                /\ Len(last.ret.data) = kept.in.len
                /\ last.err = NoError
           ELSE /\ last.ret = NullRet
                /\ ErrKind(last.err) \in {"OUT_OF_MEMORY", "NATIVE_ERROR"}

\* a window that starts inside its array and holds two different bytes came
\* back from a compressor whose pipeline is not Store
C9_Witness ==
    /\ last.op = "decompressSerial"
    /\ kept.op = "compressSerial"
    /\ rec[1].start # "ZL_GRAPH_STORE"
    /\ kept.in.off > 0
    /\ kept.in.len = 2
    /\ KeptBytes[1] # KeptBytes[2]
    /\ last.ret.tag = "jbyteArray"
    /\ last.ret.data = KeptBytes

\* the compress and decompress operation of each element type, its width and
\* the array type of the result
NumericTypes ==
    {<<"compressNumericInts", "decompressNumericInts", SizeofJint, "jintArray">>,
     <<"compressNumericLongs", "decompressNumericLongs", SizeofJlong, "jlongArray">>,
     <<"compressNumericFloats", "decompressNumericFloats", SizeofJfloat, "jfloatArray">>,
     <<"compressNumericDoubles", "decompressNumericDoubles", SizeofJdouble, "jdoubleArray">>}

\* C10: for each element type, every array of it and every graph code, the
\* frame compressNumericT returned describes NUMERIC data of the type's
\* width with the array's element count, and decompressNumericT on that
\* frame returns an array of the same type, the same element count and the
\* same bytes in every element, reading nothing beyond its scratch buffer,
\* when no step of it fails, and null with an exception pending when one
\* does.
C10_NumericRoundTrip ==
    \A T \in NumericTypes :
        (kept.op = T[1] /\ last.op = T[2]) =>
            /\ last.in.src = kept.frame
            /\ kept.frame[1] = ZL_Type_numeric
            /\ kept.frame[2] = T[3]
            /\ kept.frame[3] = Len(kept.in.src)
            /\ IF last.f = {}
               THEN /\ last.ret.tag = T[4]
                    /\ Len(last.ret.data) = Len(kept.in.src)
                    /\ last.ret.data = kept.in.src
                    /\ last.err = NoError
                    /\ Where(last.trace, "overread", "scratch") = {}
               ELSE /\ last.ret = NullRet
                    /\ ErrKind(last.err) \in {"OUT_OF_MEMORY", "NATIVE_ERROR"}

\* an array of two different 8-byte elements came back from
\* decompressNumericDoubles, through a pipeline that is not Store
C10_Witness ==
    /\ kept.op = "compressNumericDoubles"
    /\ last.op = "decompressNumericDoubles"
    /\ rec[1].start # "ZL_GRAPH_STORE"
    /\ Len(kept.in.src) = 2
    /\ kept.in.src[1] # kept.in.src[2]
    /\ last.ret.tag = "jdoubleArray"
    /\ last.ret.data = kept.in.src

\* C11: for every byte array, every window of it and every graph code,
\* compressSerialToBuffer with a destination window of at least
\* ZL_compressBound(src_len) bytes, on the handle and the source that
\* compressSerial compressed, returns the length of the array compressSerial
\* returned and leaves that array's bytes at dest_off in the destination;
\* the destination's other bytes are unchanged.
C11_BufferVariantEquivalence ==
    (/\ last.op = "compressSerialToBuffer"
     /\ kept.op = "compressSerial"
     /\ <<last.id, last.in.src, last.in.off, last.in.len>> =
            <<1, kept.in.src, kept.in.off, kept.in.len>>
     /\ last.in.max >= ZL_compressBound(last.in.len)
     /\ last.f = {}) =>
        /\ last.ret = IntRet(Len(kept.frame))
        /\ last.err = NoError
        /\ Len(last.dest) = Len(last.in.dest)
        /\ \A i \in 1..Len(last.dest) :
              last.dest[i] = IF i > last.in.doff /\ i <= last.in.doff + Len(kept.frame)
                             THEN kept.frame[i - last.in.doff]
                             ELSE last.in.dest[i]

\* a window of two different bytes, compressed through a pipeline that is
\* not Store, was written one byte into a destination of exactly the bound
C11_Witness ==
    /\ last.op = "compressSerialToBuffer"
    /\ kept.op = "compressSerial"
    /\ rec[1].start # "ZL_GRAPH_STORE"
    /\ kept.in.len = 2
    /\ KeptBytes[1] # KeptBytes[2]
    /\ last.in.doff = 1
    /\ last.in.max = ZL_compressBound(kept.in.len)
    /\ last.ret = IntRet(Len(kept.frame))
    /\ SubSeq(last.dest, 2, 1 + Len(kept.frame)) = kept.frame

\* the size the native call of a _to_buffer operation has to write: the
\* frame of the source window, or the content of the frame in the window
ProducedSize ==
    LET window == SubSeq(last.in.src, last.in.off + 1, last.in.off + last.in.len)
    IN  IF last.op = "compressSerialToBuffer" THEN FrameHeaderLen + last.in.len
        ELSE IF IsFrame(window) THEN window[2] * window[3]
        ELSE 0

\* the steps of a call that are calls of the native library
NativeCalls(t) == {t[i].o : i \in {j \in 1..Len(t) : t[j].e = "call"}}

\* C12: a _to_buffer call that returns never returns a size greater than
\* max_dest_len; when the native call is reached and the size it has to
\* write exceeds max_dest_len, the call returns -1 with a NATIVE_ERROR
\* pending; the only library call these operations make is the native
\* compress or decompress itself, and they allocate no scratch buffer.
C12_ToBufferCapacity ==
    (last.op \in ToBufferOps /\ Returned) =>
        /\ last.ret.n <= last.in.max
        /\ NativeCalls(last.trace) \subseteq
              {IF last.op = "compressSerialToBuffer" THEN "ZL_CCtx_compressTypedRef"
               ELSE "ZL_decompress"}
        /\ Where(last.trace, "alloc", "scratch") = {}
        /\ (NativeCalls(last.trace) # {} /\ ProducedSize > last.in.max) =>
              /\ last.ret = IntRet(-1)
              /\ ErrKind(last.err) = "NATIVE_ERROR"

\* compressSerialToBuffer on a live compressor, two source bytes and a
\* destination window of ZL_compressBound(2) - 1 bytes: no step was made to
\* fail, and the native call reported the error
C12_Witness ==
    /\ last.op = "compressSerialToBuffer"
    /\ last.state0 = "READY"
    /\ last.f = {}
    /\ last.in.len = 2
    /\ last.in.max = ZL_compressBound(2) - 1
    /\ last.ret = IntRet(-1)
    /\ last.err = throw_openzl_exception("ZL: dstCapacity too small")

\* the element width of the type a numeric decompress operation returns
RequestedWidth(op) ==
    CASE op = "decompressNumericInts" -> SizeofJint
      [] op = "decompressNumericLongs" -> SizeofJlong
      [] op = "decompressNumericFloats" -> SizeofJfloat
      [] op = "decompressNumericDoubles" -> SizeofJdouble

\* C13: a numeric decompress operation called, on an open decompressor and
\* with no step made to fail, on a numeric frame whose element width is not
\* the width of the requested type returns null with a NATIVE_ERROR
\* pending, and copies nothing from beyond its scratch buffer.
C13_WidthMismatchIsNativeError ==
    (/\ last.op \in NumericDecompressOps
     /\ LiveDecompressor(last.id)
     /\ last.f = {}
     /\ IsFrame(last.in.src)
     /\ last.in.src[1] = ZL_Type_numeric
     /\ last.in.src[2] # RequestedWidth(last.op)) =>
        /\ last.ret = NullRet
        /\ ErrKind(last.err) = "NATIVE_ERROR"
        /\ Where(last.trace, "overread", "scratch") = {}


\* C14: getCompressionInfo called with a null reference leaves an
\* ILLEGAL_ARGUMENT pending and called with an array of length zero leaves
\* a NATIVE_ERROR pending; in both cases it returns null and has neither
\* pinned the array nor created a frame-info descriptor nor made a library
\* call.
C14_InfoRejectsNullAndEmpty ==
    (/\ last.op = "getCompressionInfo"
     /\ (last.in = NullIn \/ last.in.src = <<>>)) =>
        /\ ErrKind(last.err) = (IF last.in = NullIn THEN "ILLEGAL_ARGUMENT" ELSE "NATIVE_ERROR")
        /\ last.ret = NullRet
        /\ last.trace = <<Ev("throw", last.err.cls, 0)>>
        /\ heap = last.heap0

\* an empty array has been rejected (a null reference is rejected in
\* C14_NullWitness, reached in the same run)
C14_Witness ==
    /\ last.op = "getCompressionInfo"
    /\ last.in = SrcIn(<<>>, 0, 0)
    /\ ErrKind(last.err) = "NATIVE_ERROR"
    /\ last.err.msg = "[Error OpenZL JNI] Compressed data is empty"

C14_NullWitness ==
    /\ last.op = "getCompressionInfo"
    /\ last.in = NullIn
    /\ ErrKind(last.err) = "ILLEGAL_ARGUMENT"

\* the data type names of the output type codes 0..3
TypeTable == <<"SERIAL", "STRUCT", "NUMERIC", "STRING">>

\* C15: a CompressionInfo returned by getCompressionInfo names the data type
\* of the frame's output type code as 0 SERIAL, 1 STRUCT, 2 NUMERIC,
\* 3 STRING and UNKNOWN for every other code, and carries the graph id of
\* GENERIC_NUMERIC when that data type is NUMERIC and of DEFAULT_SERIAL
\* for every other one, so the two agree on which frames are numeric.
C15_InfoTypeAndGraph ==
    (last.op = "getCompressionInfo" /\ last.ret.tag = "object") =>
        LET info == last.ret.data[1]
            c == last.in.code
        IN /\ info.data_type = (IF c \in 0..3 THEN TypeTable[c + 1] ELSE "UNKNOWN")
           /\ info.graph = (IF info.data_type = "NUMERIC" THEN GENERIC_NUMERIC ELSE DEFAULT_SERIAL)
           /\ (info.data_type = "NUMERIC") <=> (info.graph = GENERIC_NUMERIC)

\* a frame whose output type code is 2 has been described
C15_Witness ==
    /\ last.op = "getCompressionInfo"
    /\ last.ret.tag = "object"
    /\ last.in.code = 2
    /\ last.ret.data[1].data_type = "NUMERIC"
    /\ last.ret.data[1].graph = GENERIC_NUMERIC

\* the releases of a trace, in program order
Frees(t) == SelectSeq(t, LAMBDA ev : ev.e = "free")

\* the objects a sequence of releases names
Freed(t) == {Obj(t[i].o, t[i].n) : i \in 1..Len(t)}

\* C16: destroyCompressor(0) and destroyDecompressor(0) do nothing and
\* release nothing, whenever they are called; destroyCompressor on the id of
\* an open compressor releases the descriptor, then the context, then the
\* handle record, each once and nothing else; destroyDecompressor on the id
\* of an open decompressor releases the context, then the record.
C16_CloseOrder ==
    /\ (last.op \in CloseOps /\ last.id = 0) =>
            /\ last.trace = <<>>
            /\ last.ret = VoidRet /\ last.err = NoError
            /\ heap = last.heap0
    /\ (/\ last.op = "destroyCompressor"
        /\ last.state0 = "READY"
        /\ Obj("Compressor", last.id) \in last.heap0) =>
            /\ Frees(last.trace) = <<Ev("free", "Compressor", last.id),
                                     Ev("free", "CCtx", last.id),
                                     Ev("free", "record", last.id)>>
            /\ Freed(Frees(last.trace)) \subseteq last.heap0
            /\ heap = last.heap0 \ Freed(Frees(last.trace))
    /\ (/\ last.op = "destroyDecompressor"
        /\ last.state0 = "READY"
        /\ Obj("DCtx", last.id) \in last.heap0) =>
            /\ Frees(last.trace) = <<Ev("free", "DCtx", last.id),
                                     Ev("free", "record", last.id)>>
            /\ Freed(Frees(last.trace)) \subseteq last.heap0
            /\ heap = last.heap0 \ Freed(Frees(last.trace))

\* an open compressor has been closed while another handle stays open
C16_Witness ==
    /\ last.op = "destroyCompressor"
    /\ last.state0 = "READY"
    /\ Obj("Compressor", last.id) \in last.heap0
    /\ Obj("record", last.id) \notin heap
    /\ \E a \in Ids : a # last.id /\ Obj("record", a) \in heap

\* a close of id 0 after a handle was closed: nothing is released again
C16_ZeroWitness ==
    /\ last.op \in CloseOps
    /\ last.id = 0
    /\ \E a \in Ids : hstate[a] = "CLOSED"

\* the resources one call acquires for itself
CallResources == {"pin_src", "pin_dest", "scratch", "typed_ref"}

\* the resources a trace acquired, in the order of acquisition
Acquired(t) ==
    LET a == SelectSeq(t, LAMBDA ev : ev.e \in {"pin", "alloc"} /\ ev.o \in CallResources)
    IN  [i \in 1..Len(a) |-> a[i].o]

\* the resources a trace released, in the order of release
Released(t) ==
    LET r == SelectSeq(t, LAMBDA ev : ev.e \in {"release", "free"} /\ ev.o \in CallResources)
    IN  [i \in 1..Len(r) |-> r[i].o]

\* C18 as stated: a compress or decompress call that returns has released
\* the resources it acquired in the reverse of the order of acquisition.
C18_AsStated ==
    (last.op \in HandleOps /\ Returned) =>
        Released(last.trace) = Reverse(Acquired(last.trace))

\* C18 amended: a compress or decompress call that returns has released
\* every resource it acquired, once; the typed reference, acquired last, is
\* released first, and the source pin and the output region (scratch buffer
\* or destination pin) are then released in the order of their acquisition,
\* the source pin before the output region.
C18_TypedRefFirstThenInOrder ==
    (last.op \in HandleOps /\ Returned) =>
        LET acq == Acquired(last.trace) IN
        /\ Released(last.trace) =
               SelectSeq(acq, LAMBDA o : o = "typed_ref") \o SelectSeq(acq, LAMBDA o : o # "typed_ref")
        /\ \A o \in CallResources : Cardinality({i \in 1..Len(acq) : acq[i] = o}) <= 1

\* a compress call has returned after acquiring the source pin, the scratch
\* buffer and the typed reference, and released them as typed reference,
\* source pin, scratch buffer
C18_Witness ==
    /\ last.op = "compressSerial"
    /\ Returned
    /\ Acquired(last.trace) = <<"pin_src", "scratch", "typed_ref">>
    /\ Released(last.trace) = <<"typed_ref", "pin_src", "scratch">>

\* C19: in the six compress operations the native compress call is made
\* only after the source was pinned and the typed reference created and
\* before either is released, and on every path that returns with a typed
\* reference created, the reference is freed, once, before the source pin
\* is released.
C19_TypedRefWithinPin ==
    (last.op \in CompressOps) =>
        LET t == last.trace
            created == Where(t, "alloc", "typed_ref")
            freed == Where(t, "free", "typed_ref")
            pinned == Where(t, "pin", "pin_src")
            unpinned == Where(t, "release", "pin_src")
            compress == Where(t, "call", "ZL_CCtx_compressTypedRef")
        IN  /\ \A c \in compress :
                   /\ \E i \in created : i < c
                   /\ \E p \in pinned : p < c
                   /\ \A j \in freed \cup unpinned : c < j
            /\ (Returned /\ created # {}) =>
                   /\ Cardinality(freed) = 1
                   /\ Cardinality(unpinned) = 1
                   /\ \A i \in created, j \in freed, p \in pinned, k \in unpinned :
                          p < i /\ i < j /\ j < k

\* a numeric compress call has made the native call and returned an array
C19_Witness ==
    /\ last.op = "compressNumericInts"
    /\ last.ret.tag = "jbyteArray"
    /\ Where(last.trace, "call", "ZL_CCtx_compressTypedRef") # {}
    /\ Where(last.trace, "free", "typed_ref") # {}

\* the native compress or decompress call was made before step i of trace t
NativeCallBefore(t, i) ==
    \E c \in 1..(i - 1) :
        t[c].e = "call" /\ t[c].o \in {"ZL_CCtx_compressTypedRef", "ZL_decompress"}

\* C20: every release of a source array, in every compress, decompress and
\* introspection call, is made with JNI_ABORT; a _to_buffer call releases
\* its destination with mode 0 (copy back) when the native call was made
\* before the release and with JNI_ABORT when it was not, and in that case
\* the destination array is as it was before the call.
C20_ReleaseModes ==
    LET t == last.trace IN
    /\ (last.op \in DataOps) =>
            \A i \in Where(t, "release", "pin_src") : t[i].n = JNI_ABORT
    /\ (last.op \in ToBufferOps) =>
            /\ \A i \in Where(t, "release", "pin_dest") :
                   t[i].n = (IF NativeCallBefore(t, i) THEN JNI_COMMIT_AND_FREE ELSE JNI_ABORT)
            /\ (Returned /\ ~NativeCallBefore(t, Len(t) + 1)) => last.dest = last.in.dest

\* compressSerialToBuffer pinned both arrays, failed to create the typed
\* reference and released the destination without the native call
C20_Witness ==
    /\ last.op = "compressSerialToBuffer"
    /\ last.f = {"typed_ref"}
    /\ Where(last.trace, "release", "pin_dest") # {}
    /\ Where(last.trace, "release", "pin_src") # {}
    /\ ~NativeCallBefore(last.trace, Len(last.trace) + 1)

\* a _to_buffer call released its destination with copy-back after the
\* native call
C20_CommitWitness ==
    /\ last.op \in ToBufferOps
    /\ \E i \in Where(last.trace, "release", "pin_dest") :
           last.trace[i].n = JNI_COMMIT_AND_FREE /\ NativeCallBefore(last.trace, i)

\* what the method thread t is in does when nothing else runs: the method
\* applied to the thread's arguments in the current state
Alone(t) ==
    LET c == thr[t] IN
    CASE c.op = "createCompressor" -> createCompressor(c.addr, c.in.code, c.f)
      [] c.op = "createDecompressor" -> createDecompressor(c.addr, c.f)
      [] c.op = "compressSerial" ->
            compressSerial(c.addr, c.in.src, c.in.off, c.in.len, c.f, "garbage")
      [] c.op = "decompressNumericInts" ->
            decompressNumericInts(c.addr, c.in.src, c.f, "garbage", 0)
      [] c.op = "destroyCompressor" -> destroyCompressor(c.addr, "garbage")
      [] c.op = "destroyDecompressor" -> destroyDecompressor(c.addr, "garbage")

\* C17: while two threads, each on a handle of its own, are inside the
\* binding with their steps interleaved, the handles are distinct, every
\* step of a thread that reads, allocates or frees a record, context or
\* descriptor names the thread's own handle, and the result, the exception
\* and the events (the releases among them) of the method a thread is in
\* are those the method has when it runs alone, whatever the other thread
\* has done in between.
C17_ThreadsIndependent ==
    /\ \A t, u \in Threads : (t # u /\ thr[t].addr # 0) => thr[t].addr # thr[u].addr
    /\ \A t \in Threads :
           thr[t].op # "idle" =>
               /\ \A i \in 1..Len(thr[t].trace) :
                      thr[t].trace[i].o \in SharedKinds => thr[t].trace[i].n = thr[t].addr
               /\ Alone(t).ret = thr[t].ret
               /\ Alone(t).err = thr[t].err
               /\ Alone(t).trace = thr[t].trace

\* one thread is between the native compress call and the release of its
\* typed reference while the other is in the middle of a close
C17_Witness ==
    \E t, u \in Threads :
        /\ t # u
        /\ thr[t].op = "compressSerial"
        /\ thr[t].pc > 0 /\ thr[t].pc < Len(thr[t].trace)
        /\ thr[t].trace[thr[t].pc].e = "call"
        /\ thr[u].op \in {"destroyCompressor", "destroyDecompressor"}
        /\ thr[u].pc > 0 /\ thr[u].pc < Len(thr[u].trace)

\* the records, contexts and descriptors of a heap
Owned(h) == {o \in h : o.k \in OwnedKinds}

\* the record at address a and what it can own
HandleObjects(a) == {Obj(k, a) : k \in OwnedKinds}

\* the steps of trace t that allocate (e = "alloc") or free (e = "free") a
\* record, context or descriptor
OwnedSteps(t, e) == {i \in 1..Len(t) : t[i].e = e /\ t[i].o \in OwnedKinds}

\* C21: a compress, decompress or introspection call allocates and frees
\* no record, context or descriptor.  A close of an id that an open
\* returned and that was not closed before frees objects of that id only,
\* each of them live before and freed once, the record among them, and
\* leaves every other handle as it was.  An open frees nothing that existed
\* before it, and what it leaves allocated belongs to the id it returns,
\* whose record is new.  At every time the live records are those of the
\* ids opened and not yet closed.
C21_HandleAccounting ==
    LET t == last.trace IN
    /\ \A a \in Ids : (Obj("record", a) \in heap) <=> (hstate[a] = "READY")
    /\ (last.op \in DataOps) =>
            /\ OwnedSteps(t, "alloc") = {} /\ OwnedSteps(t, "free") = {}
            /\ Owned(heap) = Owned(last.heap0)
    /\ (last.op \in CloseOps /\ last.state0 = "READY" /\ Returned) =>
            /\ \A i \in OwnedSteps(t, "free") :
                   /\ t[i].n = last.id
                   /\ \A j \in OwnedSteps(t, "free") : (t[j] = t[i]) => j = i
            /\ OwnedSteps(t, "alloc") = {}
            /\ Owned(heap) \subseteq Owned(last.heap0)
            /\ Owned(last.heap0) \ Owned(heap) \subseteq HandleObjects(last.id)
            /\ Obj("record", last.id) \in last.heap0
            /\ Obj("record", last.id) \notin heap
    /\ (last.op \in OpenOps) =>
            /\ Owned(last.heap0) \subseteq Owned(heap)
            /\ Owned(heap) \ Owned(last.heap0) \subseteq HandleObjects(last.ret.n)
            /\ \A i \in OwnedSteps(t, "free") :
                   \E j \in OwnedSteps(t, "alloc") : j < i /\ t[j].o = t[i].o /\ t[j].n = t[i].n
            /\ (last.ret.n # 0) =>
                   /\ Obj("record", last.ret.n) \in heap
                   /\ Obj("record", last.ret.n) \notin last.heap0

\* an open decompressor has been closed while another handle stays open
C21_Witness ==
    /\ last.op = "destroyDecompressor"
    /\ last.state0 = "READY"
    /\ Returned
    /\ Obj("DCtx", last.id) \in last.heap0
    /\ Obj("record", last.id) \notin heap
    /\ \E a \in Ids : a # last.id /\ Obj("record", a) \in heap

\* what a call made now on id, with no step made to fail, returns: a
\* compress call on a compressor and a decompress call on a decompressor,
\* each on a sample array
LaterCall(id) ==
    IF LiveCompressor(id)
    THEN compressSerial(id, <<0, 255>>, 0, 2, {}, "garbage")
    ELSE decompressNumericInts(id, IntsFrame, {}, "garbage", 0)

\* the call being made is a compress or decompress call on an open handle
\* of its kind that returns with an exception pending
FailedCall ==
    /\ last.op = "idle"
    /\ last'.op \in HandleOps
    /\ IF last'.op \in CompressOps THEN LiveCompressor(last'.id) ELSE LiveDecompressor(last'.id)
    /\ last'.ret.tag # "crash"
    /\ last'.err # NoError

\* C22: a compress or decompress call on an open handle that fails, at
\* whatever step, leaves the handle's record (its context, descriptor and
\* graph identifier) as it was, frees none of the objects the handle owns,
\* leaves the handle READY, and leaves what a later call on the same id
\* returns as it was before the failed call.
C22_FailureLeavesHandleUsable ==
    [][\A id \in Ids :
          (FailedCall /\ last'.id = id) =>
          /\ rec'[id] = rec[id]
          /\ hstate[id] = "READY" /\ hstate'[id] = "READY"
          /\ HandleObjects(id) \cap heap' = HandleObjects(id) \cap heap
          /\ Obj("record", id) \in heap'
          /\ LaterCall(id)' = LaterCall(id)]_vars

\* a compress call on an open compressor has failed with a native error
C22_Witness ==
    /\ last.op = "compressSerial"
    /\ last.state0 = "READY"
    /\ LiveCompressor(last.id)
    /\ last.f = {"native"}
    /\ last.ret = NullRet
    /\ ErrKind(last.err) = "NATIVE_ERROR"
====
